---- MODULE Spec2Model ----
(***************************************************************************)
(* Model of the OmniLink command engine (chess_link/omnilink.py; the copy  *)
(* in chess_oapi/oapi.py is line-for-line the same engine).                *)
(*                                                                         *)
(* Text is a sequence of one-character strings.  Python's None and the     *)
(* empty string are both falsy and the code only ever tests them with      *)
(* `if x:` / `x or None`, so inside the compiler both are the empty        *)
(* sequence; where the code returns None to its caller (parse's template)  *)
(* the model uses the record None.                                         *)
(***************************************************************************)
EXTENDS Integers, Sequences, FiniteSets, TLC

VARIABLES
    types,          \* TypeRegistry._types: lower-cased name -> (regex, converter)
    compiled,       \* OmniLinkEngine._compiled
    templates,      \* OmniLinkEngine._templates
    handlers,       \* OmniLinkEngine._handlers: (predicate, handler) routes
    before,         \* OmniLinkEngine._before
    after,          \* OmniLinkEngine._after
    metrics,        \* OmniLinkEngine.metrics (a Counter)
    history,        \* OmniLinkEngine.history (a deque)
    keep_history,   \* the deque's maxlen
    parsed,         \* the last operation was parse(): its argument and return value
    ret,            \* the last operation was handle(): how the call ended
    trace,          \* the callbacks the last operation invoked, in order
    added,          \* the last operation was add_template(): its argument and how it ended
    seen,           \* the last parse() made since the pattern list last changed
    ncalls,         \* number of handle() calls made so far
    log,            \* every Event created so far, in call order
    threads,        \* per thread: where its call in progress is, and its locals
    mqtt,           \* OmniLinkMQTTBridge: what the client was told to publish
    remote,         \* OmniLinkRemoteCommandBridge: stop event, thread, polling loops
    context         \* periodic context: _CONTEXT_STOP and the loops started

vars == <<types, compiled, templates, handlers, before, after, metrics,
          history, keep_history, parsed, ret, trace, added, seen, ncalls,
          log, threads, mqtt, remote, context>>

\* Python's None, and a value that is not None, where the code hands either to
\* its caller.
None == [none |-> TRUE]

Some(v) == [some |-> v]

Min(a, b) == IF a < b THEN a ELSE b

-----------------------------------------------------------------------------
(* Characters *)

Digits == {"0", "1", "2", "3", "4", "5", "6", "7", "8", "9"}

UpperLetters == {"A", "F", "G", "I", "N", "O", "S", "T", "X"}

LowerLetters == {"a", "b", "c", "e", "f", "g", "i", "n", "o", "p", "s", "t", "x", "y"}

\* str.lower() on one character
LowerCh(c) ==
    CASE c = "A" -> "a"
      [] c = "F" -> "f"
      [] c = "G" -> "g"
      [] c = "I" -> "i"
      [] c = "N" -> "n"
      [] c = "O" -> "o"
      [] c = "S" -> "s"
      [] c = "T" -> "t"
      [] c = "X" -> "x"
      [] OTHER -> c

LowerS(s) == [i \in 1..Len(s) |-> LowerCh(s[i])]

IsWs(c) == c \in {" ", "\t"}

DigitVal(c) ==
    CASE c = "0" -> 0 [] c = "1" -> 1 [] c = "2" -> 2 [] c = "3" -> 3
      [] c = "4" -> 4 [] c = "5" -> 5 [] c = "6" -> 6 [] c = "7" -> 7
      [] c = "8" -> 8 [] c = "9" -> 9

-----------------------------------------------------------------------------
(* _normalize_separators *)

RECURSIVE LStrip(_)
LStrip(s) == IF s # <<>> /\ IsWs(Head(s)) THEN LStrip(Tail(s)) ELSE s

RECURSIVE RStrip(_)
RStrip(s) ==
    IF s # <<>> /\ IsWs(s[Len(s)]) THEN RStrip(SubSeq(s, 1, Len(s) - 1)) ELSE s

\* text.strip()
Strip(s) == RStrip(LStrip(s))

\* re.sub(r"\s+", " ", t)
RECURSIVE CollapseWs(_)
CollapseWs(s) ==
    IF s = <<>> THEN <<>>
    ELSE IF IsWs(Head(s)) THEN <<" ">> \o CollapseWs(LStrip(Tail(s)))
    ELSE <<Head(s)>> \o CollapseWs(Tail(s))

\* t.replace(" ", "_")
SpacesToUnderscores(s) == [i \in 1..Len(s) |-> IF s[i] = " " THEN "_" ELSE s[i]]

_normalize_separators(text) == SpacesToUnderscores(CollapseWs(Strip(text)))

-----------------------------------------------------------------------------
(* Regular expressions.  A regex source is a string; the model knows the   *)
(* sources below (the default token regex, the installed types' regexes    *)
(* and the literal /regex/ tokens its templates use) and decides a full    *)
(* match of each as Python's re does under re.IGNORECASE.                  *)

_DEFAULT_TOKEN_RX == "[^_]+"

AllIn(s, S) == \A i \in 1..Len(s) : s[i] \in S

RxFullMatch(rx, s) ==
    CASE rx = "[^_]+"     -> Len(s) >= 1 /\ \A i \in 1..Len(s) : s[i] # "_"
      [] rx = "[A-Za-z]+" -> Len(s) >= 1 /\ AllIn(s, UpperLetters \cup LowerLetters)
      [] rx = "-?\\d+"    -> LET d == IF s # <<>> /\ Head(s) = "-" THEN Tail(s) ELSE s
                             IN  Len(d) >= 1 /\ AllIn(d, Digits)
      [] rx = "\\d+"      -> Len(s) >= 1 /\ AllIn(s, Digits)
      [] rx = "\\d"       -> Len(s) = 1 /\ AllIn(s, Digits)
      [] rx = "(\\d)+"    -> Len(s) >= 1 /\ AllIn(s, Digits)
      [] rx = ".+"        -> Len(s) >= 1
      [] OTHER            -> FALSE

\* The source text of a literal /regex/ token, as the string the model knows it by.
RxSource(chars) ==
    CASE chars = <<"\\", "d", "+">> -> "\\d+"
      [] chars = <<".", "+">>       -> ".+"
      [] chars = <<"(", "\\", "d", ")", "+">> -> "(\\d)+"
      [] OTHER                      -> "unsupported"

\* The capturing groups written inside a regex source: how many there are,
\* and what they hold after the source matched s (a repeated group holds its
\* last repetition).
RxGroupCount(rx) == IF rx = "(\\d)+" THEN 1 ELSE 0

RxInnerGroups(rx, s) == IF rx = "(\\d)+" THEN <<<<s[Len(s)]>>>> ELSE <<>>

-----------------------------------------------------------------------------
(* Type registry *)

\* int(s): an optional sign, then digits with single underscores allowed
\* between them; anything else is a ValueError.  (A capture has no whitespace.)
RECURSIVE NatOf(_)
NatOf(s) == IF s = <<>> THEN 0 ELSE 10 * NatOf(SubSeq(s, 1, Len(s) - 1)) + DigitVal(s[Len(s)])

Unsigned(s) == IF s # <<>> /\ Head(s) \in {"-", "+"} THEN Tail(s) ELSE s

RECURSIVE WithoutUnderscores(_)
WithoutUnderscores(s) ==
    IF s = <<>> THEN <<>>
    ELSE IF Head(s) = "_" THEN WithoutUnderscores(Tail(s))
    ELSE <<Head(s)>> \o WithoutUnderscores(Tail(s))

IntParses(s) ==
    LET d == Unsigned(s) IN
    /\ d # <<>>
    /\ AllIn(d, Digits \cup {"_"})
    /\ d[1] # "_" /\ d[Len(d)] # "_"
    /\ \A i \in 1..(Len(d) - 1) : ~(d[i] = "_" /\ d[i + 1] = "_")

IntOf(s) ==
    IF Head(s) = "-" THEN 0 - NatOf(WithoutUnderscores(Unsigned(s)))
    ELSE NatOf(WithoutUnderscores(Unsigned(s)))

StrVal(s) == [t |-> "str", s |-> s]

IntVal(n) == [t |-> "int", n |-> n]

\* Calling a registered converter: the converted value, or raised |-> TRUE.
\* "fail" is a converter a user registered that raises ValueError on every input.
Convert(conv, s) ==
    CASE conv = "int"  -> IF IntParses(s) THEN [raised |-> FALSE, val |-> IntVal(IntOf(s))]
                          ELSE [raised |-> TRUE, val |-> None]
      [] conv = "fail" -> [raised |-> TRUE, val |-> None]
      [] OTHER         -> [raised |-> FALSE, val |-> StrVal(s)]

\* TypeRegistry._install_defaults: the defaults the model's templates can name.
\* conv = "none" is a type registered without converter.
DefaultTypes ==
    (<<"a", "l", "p", "h", "a">> :> [rx |-> "[A-Za-z]+", conv |-> "none"])
    @@ (<<"i", "n", "t">> :> [rx |-> "-?\\d+", conv |-> "int"])
    @@ (<<"a", "n", "y">> :> [rx |-> ".+", conv |-> "none"])

\* TypeRegistry.get: None is the record None
TypesGet(reg, name) ==
    IF LowerS(name) \in DOMAIN reg THEN reg[LowerS(name)] ELSE None

-----------------------------------------------------------------------------
(* _TOKEN_PAT = \[([^\]]+)\] and its finditer *)

\* Position of the first "]" after position p, or 0.
RECURSIVE FirstClose(_, _)
FirstClose(s, p) ==
    IF p + 1 > Len(s) THEN 0
    ELSE IF s[p + 1] = "]" THEN p + 1
    ELSE FirstClose(s, p + 1)

\* _TOKEN_PAT matches at p: "[", one or more characters other than "]", "]".
TokenAt(s, p) == s[p] = "[" /\ FirstClose(s, p) > p + 1

\* Start of the leftmost match at or after position i, or 0.
RECURSIVE NextToken(_, _)
NextToken(s, i) ==
    IF i > Len(s) THEN 0
    ELSE IF TokenAt(s, i) THEN i
    ELSE NextToken(s, i + 1)

\* finditer: the non-overlapping matches left to right, each with its span
\* (first, last) and its group 1.
RECURSIVE FindTokens(_, _)
FindTokens(s, i) ==
    LET p == NextToken(s, i) IN
    IF p = 0 THEN <<>>
    ELSE LET q == FirstClose(s, p) IN
         <<[first |-> p, last |-> q, inner |-> SubSeq(s, p + 1, q - 1)]>>
             \o FindTokens(s, q + 1)

-----------------------------------------------------------------------------
(* _parse_token: (name, type_name, regex_override), None as <<>> *)

IsSlashed(s) == Len(s) > 2 /\ s[1] = "/" /\ s[Len(s)] = "/"

\* Position of the first ":" in s, or 0.
RECURSIVE ColonPos(_, _)
ColonPos(s, i) ==
    IF i > Len(s) THEN 0 ELSE IF s[i] = ":" THEN i ELSE ColonPos(s, i + 1)

_parse_token(tok) ==
    LET token == Strip(tok)
        c     == ColonPos(token, 1)
        left  == Strip(SubSeq(token, 1, c - 1))
        right == Strip(SubSeq(token, c + 1, Len(token)))
    IN  IF IsSlashed(token)
        THEN [name |-> <<>>, typ |-> <<>>, rx |-> SubSeq(token, 2, Len(token) - 1)]
        ELSE IF c > 0
        THEN IF IsSlashed(right)
             THEN [name |-> left, typ |-> <<>>, rx |-> SubSeq(right, 2, Len(right) - 1)]
             ELSE [name |-> left, typ |-> right, rx |-> <<>>]
        ELSE [name |-> token, typ |-> <<>>, rx |-> <<>>]

-----------------------------------------------------------------------------
(* _compile_template.  The compiled regex is the sequence of its pieces:   *)
(* an escaped literal span, or one capturing group around a regex source.  *)
(* "^" ... "$" and re.IGNORECASE are in how MatchPieces reads them.        *)

Lit(chars) == [kind |-> "lit", chars |-> chars]

Cap(rx) == [kind |-> "cap", rx |-> rx]

\* f"var{len(var_names) + 1}"
VarName(k) ==
    <<"v", "a", "r">> \o
    <<CASE k = 1 -> "1" [] k = 2 -> "2" [] k = 3 -> "3" [] k = 4 -> "4" [] OTHER -> "5">>

\* ValueError(f"Unknown type '{typ}' in template: {template}")
UnknownType(typ, template) == [exc |-> "ValueError", typ |-> typ, template |-> template]

\* One pass of the loop body for token tk, from the loop state acc
\* (var_names, var_types, pieces, last, failed, unknown).
CompileToken(norm, reg, acc, tk) ==
    LET pt   == _parse_token(tk.inner)
        spec == TypesGet(reg, pt.typ)
        lit  == Lit(SubSeq(norm, acc.last + 1, tk.first - 1))
        name == IF pt.name = <<>> THEN VarName(Len(acc.var_names) + 1) ELSE pt.name
    IN  IF acc.failed THEN acc
        ELSE IF pt.rx = <<>> /\ pt.typ # <<>> /\ spec = None
        THEN [acc EXCEPT !.failed = TRUE, !.unknown = pt.typ]
        ELSE LET cap_rx == IF pt.rx # <<>> THEN RxSource(pt.rx)
                           ELSE IF pt.typ # <<>> THEN spec.rx
                           ELSE _DEFAULT_TOKEN_RX
             IN  [var_names |-> Append(acc.var_names, name),
                  var_types |-> Append(acc.var_types, pt.typ),
                  pieces    |-> acc.pieces \o <<lit, Cap(cap_rx)>>,
                  last      |-> tk.last,
                  failed    |-> FALSE,
                  unknown   |-> <<>>]

RECURSIVE CompileLoop(_, _, _, _, _)
CompileLoop(norm, reg, toks, i, acc) ==
    IF i > Len(toks) THEN acc
    ELSE CompileLoop(norm, reg, toks, i + 1, CompileToken(norm, reg, acc, toks[i]))

\* The CompiledPattern, or raised |-> TRUE and the ValueError.
_compile_template(template, reg) ==
    LET norm == _normalize_separators(template)
        acc  == CompileLoop(norm, reg, FindTokens(norm, 1), 1,
                    [var_names |-> <<>>, var_types |-> <<>>, pieces |-> <<>>,
                     last |-> 0, failed |-> FALSE, unknown |-> <<>>])
    IN  IF acc.failed THEN [raised |-> TRUE, error |-> UnknownType(acc.unknown, template)]
        ELSE [raised    |-> FALSE,
              template  |-> template,
              regex     |-> Append(acc.pieces, Lit(SubSeq(norm, acc.last + 1, Len(norm)))),
              var_names |-> acc.var_names,
              var_types |-> acc.var_types,
              text      |-> norm]

-----------------------------------------------------------------------------
(* cp.regex.match(tnorm) and m.groups().  The regex is anchored at both    *)
(* ends; a group is greedy, so the backtracking matcher tries the longest  *)
(* candidate of a group first and the groups from left to right.           *)

\* LitMatches for a regex compiled without re.IGNORECASE.
LitMatchesExact(chars, s) ==
    /\ Len(chars) <= Len(s)
    /\ \A i \in 1..Len(chars) : chars[i] = s[i]

\* An escaped literal under re.IGNORECASE matches the same letters in any case.
LitMatches(chars, s) ==
    /\ Len(chars) <= Len(s)
    /\ \A i \in 1..Len(chars) : LowerCh(chars[i]) = LowerCh(s[i])

NoMatch == [matched |-> FALSE, groups |-> <<>>]

RECURSIVE MatchPieces(_, _, _)
RECURSIVE MatchGroup(_, _, _, _)

\* Pieces i.. against s, to the end of s.
MatchPieces(pieces, i, s) ==
    IF i > Len(pieces) THEN
        IF s = <<>> THEN [matched |-> TRUE, groups |-> <<>>] ELSE NoMatch
    ELSE IF pieces[i].kind = "lit" THEN
        IF LitMatches(pieces[i].chars, s)
        THEN MatchPieces(pieces, i + 1, SubSeq(s, Len(pieces[i].chars) + 1, Len(s)))
        ELSE NoMatch
    ELSE MatchGroup(pieces, i, s, Len(s))

\* Group i taking the first k characters of s, else a shorter candidate.
MatchGroup(pieces, i, s, k) ==
    IF k < 0 THEN NoMatch
    ELSE LET rest == IF RxFullMatch(pieces[i].rx, SubSeq(s, 1, k))
                     THEN MatchPieces(pieces, i + 1, SubSeq(s, k + 1, Len(s)))
                     ELSE NoMatch
         IN  IF rest.matched
             THEN [matched |-> TRUE,
                   groups  |-> <<SubSeq(s, 1, k)>>
                                   \o RxInnerGroups(pieces[i].rx, SubSeq(s, 1, k))
                                   \o rest.groups]
             ELSE MatchGroup(pieces, i, s, k - 1)

RegexMatch(cp, tnorm) == MatchPieces(cp.regex, 1, tnorm)

-----------------------------------------------------------------------------
(* OmniLinkEngine.parse *)

\* CaptureValue without the fallback of the except clause: a capture whose
\* converter raised is stored as None.
CaptureValueNoFallback(reg, typ, val) ==
    LET spec == TypesGet(reg, typ) IN
    IF typ # <<>> /\ spec # None /\ spec.conv # "none"
    THEN Convert(spec.conv, val).val
    ELSE StrVal(val)

\* CaptureValue with the converters the registry was constructed with: later
\* registrations are not seen.
CaptureValueAtConstruction(reg, typ, val) ==
    LET spec == TypesGet(DefaultTypes, typ) IN
    IF typ # <<>> /\ spec # None /\ spec.conv # "none"
    THEN LET c == Convert(spec.conv, val) IN
         IF c.raised THEN StrVal(val) ELSE c.val
    ELSE StrVal(val)

\* The value parse stores for one capture (name, typ, val).
CaptureValue(reg, typ, val) ==
    LET spec == TypesGet(reg, typ) IN
    IF typ # <<>> /\ spec # None /\ spec.conv # "none"
    THEN LET c == Convert(spec.conv, val) IN
         IF c.raised THEN StrVal(val) ELSE c.val
    ELSE StrVal(val)

\* BuildVars with the branch for a type that has no converter left out: such a
\* capture gets no entry.
BuildVarsConvertedOnly(reg, cp, values) ==
    LET n    == Min(Min(Len(cp.var_names), Len(cp.var_types)), Len(values))
        kept == {j \in 1..n : cp.var_types[j] = <<>>
                              \/ (TypesGet(reg, cp.var_types[j]) # None
                                  /\ TypesGet(reg, cp.var_types[j]).conv # "none")}
        keys == {cp.var_names[j] : j \in kept}
        last(k) == CHOOSE j \in kept :
                      /\ cp.var_names[j] = k
                      /\ \A j2 \in kept : cp.var_names[j2] = k => j2 <= j
    IN  [k \in keys |-> CaptureValue(reg, cp.var_types[last(k)], values[last(k)])]

\* out after `for name, typ, val in zip(cp.var_names, cp.var_types, values)`:
\* a later capture of the same name overwrites the earlier one.
BuildVars(reg, cp, values) ==
    LET n    == Min(Min(Len(cp.var_names), Len(cp.var_types)), Len(values))
        keys == {cp.var_names[j] : j \in 1..n}
        last(k) == CHOOSE j \in 1..n :
                      /\ cp.var_names[j] = k
                      /\ \A j2 \in 1..n : cp.var_names[j2] = k => j2 <= j
    IN  [k \in keys |-> CaptureValue(reg, cp.var_types[last(k)], values[last(k)])]

EmptyVars == [k \in {} |-> None]

Unmatched == [ok |-> FALSE, template |-> None, normalized_template |-> None,
              vars |-> EmptyVars]

\* ParseFrom without the return inside the loop: the last matching pattern wins.
RECURSIVE ParseFromLast(_, _, _, _)
ParseFromLast(cps, reg, tnorm, i) ==
    IF i > Len(cps) THEN Unmatched
    ELSE LET m     == RegexMatch(cps[i], tnorm)
             later == ParseFromLast(cps, reg, tnorm, i + 1)
         IN  IF later.ok \/ ~m.matched THEN later
             ELSE [ok                  |-> TRUE,
                   template            |-> Some(cps[i].template),
                   normalized_template |-> Some(cps[i].text),
                   vars                |-> BuildVars(reg, cps[i], m.groups)]

\* ParseFrom that falls back on the first pattern when none matches: the
\* result names that pattern, with no vars.
RECURSIVE ParseFromDefaultsToFirst(_, _, _, _)
ParseFromDefaultsToFirst(cps, reg, tnorm, i) ==
    IF i > Len(cps)
    THEN IF cps = <<>> THEN Unmatched
         ELSE [ok |-> FALSE, template |-> Some(cps[1].template),
               normalized_template |-> Some(cps[1].text), vars |-> EmptyVars]
    ELSE LET m == RegexMatch(cps[i], tnorm) IN
         IF ~m.matched THEN ParseFromDefaultsToFirst(cps, reg, tnorm, i + 1)
         ELSE [ok                  |-> TRUE,
               template            |-> Some(cps[i].template),
               normalized_template |-> Some(cps[i].text),
               vars                |-> BuildVars(reg, cps[i], m.groups)]

\* The loop `for cp in self._compiled` from index i on.
RECURSIVE ParseFrom(_, _, _, _)
ParseFrom(cps, reg, tnorm, i) ==
    IF i > Len(cps) THEN Unmatched
    ELSE LET m == RegexMatch(cps[i], tnorm) IN
         IF ~m.matched THEN ParseFrom(cps, reg, tnorm, i + 1)
         ELSE [ok                  |-> TRUE,
               template            |-> Some(cps[i].template),
               normalized_template |-> Some(cps[i].text),
               vars                |-> BuildVars(reg, cps[i], m.groups)]

EngineParse(cps, reg, text) == ParseFrom(cps, reg, _normalize_separators(text), 1)

-----------------------------------------------------------------------------
(* Callbacks.  A callable the application registers is known to the engine *)
(* only by what a call of it does: it returns, or it raises an Exception.  *)
(*   middleware  [raises]             returns (value ignored) or raises    *)
(*   predicate   [kind, norm, msg]    kind "true" / "false": returns that; *)
(*                                    "raise": raises Exception(msg);      *)
(*                                    "template": on_template's lambda     *)
(*   handler     [raises, out]        returns the value out, or raises     *)
(*                                    Exception(out)                       *)

Middleware(raises) == [raises |-> raises]

Predicate(kind, norm, msg) == [kind |-> kind, norm |-> norm, msg |-> msg]

RouteHandler(raises, out) == [raises |-> raises, out |-> out]

\* What a handler can return: None, or one of two application values.
Returned(v) == IF v = "None" THEN None ELSE [value |-> v]

\* {"error": str(e)}
ErrorResult(msg) == [error |-> msg]

\* A handler that returns the dict {"error": msg} instead of raising.
ErrorReturningHandler(msg) == [raises |-> FALSE, out |-> msg, dict |-> TRUE]

\* handler(evt) when it returns
HandlerReturn(h) == IF "dict" \in DOMAIN h THEN ErrorResult(h.out) ELSE Returned(h.out)

\* pred(evt): the truth value returned, or raised with the message.
CallPredicate(pred, evt) ==
    CASE pred.kind = "true"     -> [raised |-> FALSE, value |-> TRUE, msg |-> ""]
      [] pred.kind = "false"    -> [raised |-> FALSE, value |-> FALSE, msg |-> ""]
      [] pred.kind = "template" ->
            [raised |-> FALSE, value |-> (evt.normalized_template = Some(pred.norm)),
             msg |-> ""]
      [] OTHER                  -> [raised |-> TRUE, value |-> FALSE, msg |-> pred.msg]

-----------------------------------------------------------------------------
(* OmniLinkEngine.handle, stage by stage.  Each stage yields the calls it  *)
(* made (for trace) and escaped: whether an exception left the stage.      *)

Called(stage, idx, raised) == [stage |-> stage, idx |-> idx, raised |-> raised]

\* RunMiddleware without the try/except: the first exception leaves the loop.
RECURSIVE RunMiddlewareNoCatch(_, _, _)
RunMiddlewareNoCatch(mws, stage, i) ==
    IF i > Len(mws) THEN [escaped |-> FALSE, calls |-> <<>>]
    ELSE IF mws[i].raises THEN [escaped |-> TRUE, calls |-> <<Called(stage, i, TRUE)>>]
    ELSE LET rest == RunMiddlewareNoCatch(mws, stage, i + 1) IN
         [escaped |-> rest.escaped,
          calls   |-> <<Called(stage, i, FALSE)>> \o rest.calls]

\* RunMiddleware with the try around the whole loop: the exception is
\* swallowed, and the rest of the list is skipped.
RECURSIVE RunMiddlewareStopAtFault(_, _, _)
RunMiddlewareStopAtFault(mws, stage, i) ==
    IF i > Len(mws) THEN [escaped |-> FALSE, calls |-> <<>>]
    ELSE IF mws[i].raises THEN [escaped |-> FALSE, calls |-> <<Called(stage, i, TRUE)>>]
    ELSE LET rest == RunMiddlewareStopAtFault(mws, stage, i + 1) IN
         [escaped |-> FALSE,
          calls   |-> <<Called(stage, i, FALSE)>> \o rest.calls]

\* `for h in mws: try: h(evt) except Exception: logging.exception(...)`
RECURSIVE RunMiddleware(_, _, _)
RunMiddleware(mws, stage, i) ==
    IF i > Len(mws) THEN [escaped |-> FALSE, calls |-> <<>>]
    ELSE LET rest == RunMiddleware(mws, stage, i + 1) IN
         [escaped |-> rest.escaped,
          calls   |-> <<Called(stage, i, mws[i].raises)>> \o rest.calls]

\* RunRoutes without the break after the handler: every route whose predicate
\* is true runs its handler and the last one's outcome is the result.
RECURSIVE RunRoutesNoBreak(_, _, _)
RunRoutesNoBreak(routes, evt, i) ==
    IF i > Len(routes) THEN [escaped |-> FALSE, result |-> None, calls |-> <<>>]
    ELSE LET p    == CallPredicate(routes[i].pred, evt)
             h    == routes[i].handler
             rest == RunRoutesNoBreak(routes, evt, i + 1)
         IN  IF p.raised
             THEN [escaped |-> FALSE, result |-> ErrorResult(p.msg),
                   calls |-> <<Called("pred", i, TRUE)>>]
             ELSE IF p.value /\ h.raises
             THEN [escaped |-> FALSE, result |-> ErrorResult(h.out),
                   calls |-> <<Called("pred", i, FALSE), Called("handler", i, TRUE)>>]
             ELSE IF p.value
             THEN [rest EXCEPT
                     !.result = IF rest.calls = <<>> \/ rest.result = None
                                THEN Returned(h.out) ELSE rest.result,
                     !.calls  = <<Called("pred", i, FALSE), Called("handler", i, FALSE)>>
                                \o rest.calls]
             ELSE [rest EXCEPT !.calls = <<Called("pred", i, FALSE)>> \o rest.calls]

\* RunRoutes without the break in the except clause: after a fault the scan
\* goes on to the next route.
RECURSIVE RunRoutesPastFault(_, _, _)
RunRoutesPastFault(routes, evt, i) ==
    IF i > Len(routes) THEN [escaped |-> FALSE, result |-> None, calls |-> <<>>]
    ELSE LET p    == CallPredicate(routes[i].pred, evt)
             h    == routes[i].handler
             rest == RunRoutesPastFault(routes, evt, i + 1)
             fault(msg, calls) ==
                 [escaped |-> FALSE,
                  result  |-> IF rest.result = None THEN ErrorResult(msg) ELSE rest.result,
                  calls   |-> calls \o rest.calls]
         IN  IF p.raised THEN fault(p.msg, <<Called("pred", i, TRUE)>>)
             ELSE IF p.value /\ h.raises
             THEN fault(h.out, <<Called("pred", i, FALSE), Called("handler", i, TRUE)>>)
             ELSE IF p.value
             THEN [escaped |-> FALSE, result |-> Returned(h.out),
                   calls |-> <<Called("pred", i, FALSE), Called("handler", i, FALSE)>>]
             ELSE [rest EXCEPT !.calls = <<Called("pred", i, FALSE)>> \o rest.calls]

\* RunRoutes with the last route as a fallback: when no predicate was true its
\* handler runs.
RECURSIVE RunRoutesFallback(_, _, _)
RunRoutesFallback(routes, evt, i) ==
    IF i > Len(routes)
    THEN IF routes = <<>> THEN [escaped |-> FALSE, result |-> None, calls |-> <<>>]
         ELSE [escaped |-> FALSE,
               result  |-> Returned(routes[Len(routes)].handler.out),
               calls   |-> <<Called("handler", Len(routes), FALSE)>>]
    ELSE LET p == CallPredicate(routes[i].pred, evt)
             h == routes[i].handler
         IN  IF p.raised
             THEN [escaped |-> FALSE, result |-> ErrorResult(p.msg),
                   calls |-> <<Called("pred", i, TRUE)>>]
             ELSE IF p.value
             THEN [escaped |-> FALSE,
                   result  |-> IF h.raises THEN ErrorResult(h.out) ELSE HandlerReturn(h),
                   calls   |-> <<Called("pred", i, FALSE), Called("handler", i, h.raises)>>]
             ELSE LET rest == RunRoutesFallback(routes, evt, i + 1) IN
                  [rest EXCEPT !.calls = <<Called("pred", i, FALSE)>> \o rest.calls]

\* The routing loop from route i on: result, the calls made, escaped.
RECURSIVE RunRoutes(_, _, _)
RunRoutes(routes, evt, i) ==
    IF i > Len(routes) THEN [escaped |-> FALSE, result |-> None, calls |-> <<>>]
    ELSE LET p == CallPredicate(routes[i].pred, evt)
             h == routes[i].handler
         IN  IF p.raised
             THEN [escaped |-> FALSE, result |-> ErrorResult(p.msg),
                   calls |-> <<Called("pred", i, TRUE)>>]
             ELSE IF p.value
             THEN [escaped |-> FALSE,
                   result  |-> IF h.raises THEN ErrorResult(h.out) ELSE HandlerReturn(h),
                   calls   |-> <<Called("pred", i, FALSE), Called("handler", i, h.raises)>>]
             ELSE LET rest == RunRoutes(routes, evt, i + 1) IN
                  [rest EXCEPT !.calls = <<Called("pred", i, FALSE)>> \o rest.calls]

\* `meta = meta or {}`
EmptyMeta == [k \in {} |-> ""]

\* MetaOrEmpty that drops what the caller passed.
MetaDropped(meta) == EmptyMeta

\* None and the empty mapping are both falsy.
MetaOrEmpty(meta) ==
    IF meta = None \/ DOMAIN meta.some = {} THEN EmptyMeta ELSE meta.some

\* evt, the mapping handed to every callback; ts is time.time().
MakeEvt(cps, reg, text, meta, ts) ==
    LET p == EngineParse(cps, reg, text) IN
    [command             |-> text,
     text                |-> _normalize_separators(text),
     template            |-> p.template,
     normalized_template |-> p.normalized_template,
     vars                |-> p.vars,
     meta                |-> MetaOrEmpty(meta),
     timestamp           |-> ts]

\* DequeAppend on a plain list: nothing is evicted.
DequeAppendUnbounded(dq, maxlen, e) == Append(dq, e)

\* DequeAppend evicting at the wrong end: when full, the newest event goes.
DequeAppendEvictNewest(dq, maxlen, e) ==
    IF maxlen = 0 THEN dq
    ELSE IF Len(dq) >= maxlen THEN Append(SubSeq(dq, 1, Len(dq) - 1), e)
    ELSE Append(dq, e)

\* deque(maxlen=n).append(e)
DequeAppend(dq, maxlen, e) ==
    IF maxlen = 0 THEN dq
    ELSE IF Len(dq) >= maxlen THEN Append(Tail(dq), e)
    ELSE Append(dq, e)

\* Counter: a missing key counts 0.
CounterGet(c, k) == IF k \in DOMAIN c THEN c[k] ELSE 0

CounterInc(c, k) == [x \in DOMAIN c \cup {k} |-> CounterGet(c, x) + IF x = k THEN 1 ELSE 0]

\* OkKey from bool(parsed) instead of bool(parsed.get('ok')): a non-empty
\* mapping is always true.
OkKeyOfMapping(ok) == "handle.ok.True"

\* f"handle.ok.{bool(parsed.get('ok'))}"
OkKey(ok) == IF ok THEN "handle.ok.True" ELSE "handle.ok.False"

\* RunPipeline that runs the middleware for matched commands only.
RunPipelineMatchedOnly(bef, routes, aft, evt, ok) ==
    LET b == IF ok THEN RunMiddleware(bef, "before", 1) ELSE [escaped |-> FALSE, calls |-> <<>>]
        r == RunRoutes(routes, evt, 1)
        a == IF ok THEN RunMiddleware(aft, "after", 1) ELSE [escaped |-> FALSE, calls |-> <<>>]
    IN  [raised |-> FALSE,
         calls  |-> b.calls \o r.calls \o a.calls,
         value  |-> [ok                  |-> ok,
                     template            |-> evt.template,
                     normalized_template |-> evt.normalized_template,
                     vars                |-> evt.vars,
                     result              |-> r.result,
                     meta                |-> evt.meta,
                     timestamp           |-> evt.timestamp]]

\* RunPipeline with the after loop ahead of the routing loop.
RunPipelineAfterFirst(bef, routes, aft, evt, ok) ==
    LET b == RunMiddleware(bef, "before", 1)
        r == RunRoutes(routes, evt, 1)
        a == RunMiddleware(aft, "after", 1)
    IN  [raised |-> FALSE,
         calls  |-> b.calls \o a.calls \o r.calls,
         value  |-> [ok                  |-> ok,
                     template            |-> evt.template,
                     normalized_template |-> evt.normalized_template,
                     vars                |-> evt.vars,
                     result              |-> r.result,
                     meta                |-> evt.meta,
                     timestamp           |-> evt.timestamp]]

\* The three callback stages and the return statement.  An exception that
\* leaves a stage ends the call there.
RunPipeline(bef, routes, aft, evt, ok) ==
    LET b == RunMiddleware(bef, "before", 1)
        r == RunRoutes(routes, evt, 1)
        a == RunMiddleware(aft, "after", 1)
        raisedOut(calls) == [raised |-> TRUE, calls |-> calls, value |-> None]
    IN  IF b.escaped THEN raisedOut(b.calls)
        ELSE IF r.escaped THEN raisedOut(b.calls \o r.calls)
        ELSE IF a.escaped THEN raisedOut(b.calls \o r.calls \o a.calls)
        ELSE [raised |-> FALSE,
              calls  |-> b.calls \o r.calls \o a.calls,
              value  |-> [ok                  |-> ok,
                          template            |-> evt.template,
                          normalized_template |-> evt.normalized_template,
                          vars                |-> evt.vars,
                          result              |-> r.result,
                          meta                |-> evt.meta,
                          timestamp           |-> evt.timestamp]]

-----------------------------------------------------------------------------
(* Bounds and the inputs the callers draw from *)

MaxTemplates == 3

MaxRoutes == 2

MaxMiddleware == 2

\* Routes and middleware registered on one engine, all lists together
MaxCallbacks == 5

MaxCalls == 2

\* Messages delivered to one MQTT bridge
MaxMessages == 2

\* Polling threads started on one remote bridge
MaxLoops == 2

\* Periodic context loops started
MaxContextLoops == 3

MaxRemoteCalls == 3

MaxKeep == 2

\* keep_history's default
KeepHistoryDefault == 200

MaxRingCalls == 203

\* Threads that call into one engine (the MQTT callback thread, the remote
\* polling thread, the program's own)
MaxThreads == 2

Threads == 1..MaxThreads

\* handle() calls made by all threads together
MaxThreadCalls == 2

\* Patterns the threads add to one engine while others read
MaxAdded == 2

\* A thread with no call in progress, before its first call.
Idle == [pc |-> "idle", text |-> <<>>, evt |-> None, ok |-> FALSE, loaded |-> 0,
         i |-> 0, n0 |-> 0, n1 |-> 0, ran |-> 0, cp |-> None, result |-> None]

TplGoX == <<"g", "o", "_", "[", "x", "]">>

TplGoXInt == <<"g", "o", "_", "[", "x", ":", "i", "n", "t", "]">>

TplSetN == <<"s", "e", "t", " ", "[", "n", ":", "I", "n", "t", "]">>

TplAnon == <<"[", ":", "a", "l", "p", "h", "a", "]", "_", "[", "/", "\\", "d", "+", "/", "]">>

TplEmptyToken == <<"g", "o", "_", "[", "]">>

TplUnknownType == <<"g", "o", "_", "[", "x", ":", "f", "]">>

TplGoFN == <<"g", "o", "_", "[", "x", ":", "f", "]", "_", "[", "n", ":", "i", "n", "t", "]">>

\* "[x]_[:alpha]": an anonymous capture after a named one
TplNamedAnon == <<"[", "x", "]", "_", "[", ":", "a", "l", "p", "h", "a", "]">>

\* "[n:/(\d)+/]_[x]": a literal regex with a capturing group of its own
TplInner == <<"[", "n", ":", "/", "(", "\\", "d", ")", "+", "/", "]", "_", "[", "x", "]">>

\* "[a:/(\d)+/]_[n:int]": a typed capture after such a literal regex
TplInnerInt == <<"[", "a", ":", "/", "(", "\\", "d", ")", "+", "/", "]", "_",
                 "[", "n", ":", "i", "n", "t", "]">>

TemplatePool == {TplGoX, TplGoXInt, TplSetN, TplAnon, TplEmptyToken, TplUnknownType}

TxtGo7 == <<"g", "o", "_", "7">>

TxtGo7Spaced == <<" ", "g", "o", " ", " ", "7">>

TxtGoX == <<"G", "O", "_", "x">>

TxtSet42 == <<"s", "e", "t", "_", "4", "2">>

TxtSetAb == <<"s", "e", "t", "_", "a", "b">>

TxtStop == <<"s", "t", "o", "p">>

TxtGoBrackets == <<"g", "o", "_", "[", "]">>

TxtGoAb7 == <<"g", "o", "_", "a", "b", "_", "7">>

TxtGo127 == <<"g", "o", "_", "1", "2", "_", "7">>

TxtGoAb == <<"g", "o", "_", "a", "b">>

Txt42Go == <<"4", "2", "_", "g", "o">>

TxtSetAB42 == <<"S", "e", "T", " ", "4", "2">>

Txt427 == <<"4", "2", "_", "7">>

TxtGoCapX == <<"G", "o", "_", "X">>

ParseTexts == {TxtGo7, TxtGo7Spaced, TxtGoX, TxtSet42, TxtSetAb, TxtStop, TxtGoBrackets, <<>>}

HandleTexts == {TxtGo7, TxtSet42, TxtStop}

PipelineTexts == {TxtGo7, TxtStop}

\* The texts the callers of the ring specification send in turn once the
\* first MaxCalls calls are made.
RingTexts == <<TxtGo7, TxtStop, TxtSet42>>

RingText(n) == RingTexts[(n % Len(RingTexts)) + 1]

\* `meta` as the caller passes it: omitted (None) or a mapping
Metas == {None}

\* `meta` of callers that pass one: an empty mapping, the remote bridge's
\* source tag, an MQTT message's reply topic with a tag.
CallerMetas ==
    {None,
     Some(EmptyMeta),
     Some("source" :> "remote"),
     Some(("reply_to" :> "topic") @@ ("source" :> "mqtt"))}

Middlewares == {Middleware(FALSE), Middleware(TRUE)}

Route(pred, h) == [pred |-> pred, handler |-> h]

\* The (predicate, handler) pairs the callers of on() register.
Routes ==
    {Route(Predicate("true", <<>>, ""), RouteHandler(FALSE, "r1")),
     Route(Predicate("true", <<>>, ""), RouteHandler(TRUE, "handler failed")),
     Route(Predicate("false", <<>>, ""), RouteHandler(FALSE, "r1")),
     Route(Predicate("raise", <<>>, "predicate failed"), RouteHandler(FALSE, "r2"))}

-----------------------------------------------------------------------------
(* Construction: OmniLinkEngine.__init__(patterns, types, keep_history) *)

\* OmniLinkMQTTBridge after __init__: nothing delivered, nothing published.
\* delivered counts the _on_message calls, steps and last are what the last
\* one did and its message, call is the timestamp of the handle() it made.
NoMessages == [delivered |-> 0, published |-> <<>>, steps |-> <<>>, last |-> None,
               call |-> 0]

\* OmniLinkRemoteCommandBridge after __init__.  thread is the index in loops
\* of the Thread in self._thread (0: None); loops holds, for every polling
\* thread ever started, where it is in loop_forever; caller is where the
\* application is in a stop() call; stop_called and op are the history of the
\* lifecycle calls: stop() was called since the last thread was started, and
\* what the last call did.  poll is the last process_once call (tick tells
\* one call from the next, fetched is what fetch_last_command gave or raised,
\* updated whether update_last_response returned, returned what the call
\* returned) and written the records whose response was written.
NotStarted == [stop_event     |-> FALSE,
               thread         |-> 0,
               loops          |-> <<>>,
               last_signature |-> None,
               poll           |-> None,
               written        |-> {},
               caller         |-> "idle",
               stop_called    |-> FALSE,
               op             |-> "init"]

\* The module's periodic context state with a bridge constructed and no
\* periodic context started.  stop is the index in loops of the loop whose
\* event _CONTEXT_STOP is and thread that of _CONTEXT_THREAD (0: None); loops
\* holds, for every _loop thread ever started, where it is, whether its own
\* stop_evt is set and the message it was started with; published is the set
\* of context strings given to the client so far, op the last call made.
NoContext == [stop |-> 0, thread |-> 0, loops |-> <<>>, published |-> {}, op |-> "init"]

\* `for t in patterns: self.add_template(t)`; the patterns given compile.
RECURSIVE CompileAll(_, _)
CompileAll(patterns, reg) ==
    IF patterns = <<>> THEN <<>>
    ELSE <<_compile_template(Head(patterns), reg)>> \o CompileAll(Tail(patterns), reg)

Construct(patterns, keep) ==
    /\ types = DefaultTypes
    /\ compiled = CompileAll(patterns, DefaultTypes)
    /\ templates = patterns
    /\ handlers = <<>>
    /\ before = <<>>
    /\ after = <<>>
    /\ metrics = [k \in {} |-> 0]
    /\ history = <<>>
    /\ keep_history = keep
    /\ parsed = None
    /\ ret = None
    /\ trace = <<>>
    /\ added = None
    /\ seen = None
    /\ ncalls = 0
    /\ log = <<>>
    /\ threads = [t \in Threads |-> Idle]
    /\ mqtt = NoMessages
    /\ remote = NotStarted
    /\ context = NoContext

-----------------------------------------------------------------------------
(* Operations.  parsed, ret and trace describe the last operation made. *)

NotACall == parsed' = None /\ ret' = None /\ trace' = <<>> /\ added' = None

RoomForCallback == Len(handlers) + Len(before) + Len(after) < MaxCallbacks

\* AddTemplate that appends the template text before it compiles it.
AddTemplateTextFirst(t) ==
    /\ Len(compiled) < MaxTemplates
    /\ templates' = Append(templates, t)
    /\ LET cp == _compile_template(t, types) IN
       IF cp.raised
       THEN /\ UNCHANGED compiled
            /\ added' = [template |-> t, raised |-> Some(cp.error)]
       ELSE /\ compiled' = Append(compiled, cp)
            /\ added' = [template |-> t, raised |-> None]
    /\ parsed' = None /\ ret' = None /\ trace' = <<>>
    /\ seen' = IF added'.raised = None THEN None ELSE seen
    /\ UNCHANGED <<types, handlers, before, after, metrics, history, keep_history,
                   ncalls, log, threads,
                   mqtt, remote, context>>

\* AddTemplate that puts the new pattern at the head of the lists.
AddTemplateAtHead(t) ==
    /\ Len(compiled) < MaxTemplates
    /\ LET cp == _compile_template(t, types) IN
       IF cp.raised
       THEN /\ UNCHANGED <<compiled, templates, mqtt, remote, context>>
            /\ added' = [template |-> t, raised |-> Some(cp.error)]
       ELSE /\ compiled' = <<cp>> \o compiled
            /\ templates' = <<t>> \o templates
            /\ added' = [template |-> t, raised |-> None]
    /\ parsed' = None /\ ret' = None /\ trace' = <<>>
    /\ seen' = IF added'.raised = None THEN None ELSE seen
    /\ UNCHANGED <<types, handlers, before, after, metrics, history, keep_history,
                   ncalls, log, threads,
                   mqtt, remote, context>>

\* add_template(template): a ValueError from the compiler leaves the call
\* before either append.
AddTemplate(t) ==
    /\ Len(compiled) < MaxTemplates
    /\ LET cp == _compile_template(t, types) IN
       IF cp.raised
       THEN /\ UNCHANGED <<compiled, templates, mqtt, remote, context>>
            /\ added' = [template |-> t, raised |-> Some(cp.error)]
       ELSE /\ compiled' = Append(compiled, cp)
            /\ templates' = Append(templates, t)
            /\ added' = [template |-> t, raised |-> None]
    /\ parsed' = None /\ ret' = None /\ trace' = <<>>
    /\ seen' = IF added'.raised = None THEN None ELSE seen
    /\ UNCHANGED <<types, handlers, before, after, metrics, history, keep_history,
                   ncalls, log, threads,
                   mqtt, remote, context>>

\* on(predicate, handler)
On(pred, h) ==
    /\ Len(handlers) < MaxRoutes
    /\ RoomForCallback
    /\ handlers' = Append(handlers, Route(pred, h))
    /\ NotACall
    /\ UNCHANGED <<types, compiled, templates, before, after, metrics, history,
                   keep_history, ncalls, log, threads, seen,
                   mqtt, remote, context>>

\* OnTemplate that keeps the template text as written.
OnTemplateRaw(t, h) ==
    /\ Len(handlers) < MaxRoutes
    /\ RoomForCallback
    /\ handlers' = Append(handlers, Route(Predicate("template", t, ""), h))
    /\ NotACall
    /\ UNCHANGED <<types, compiled, templates, before, after, metrics, history,
                   keep_history, ncalls, log, threads, seen,
                   mqtt, remote, context>>

\* on_template(template, handler)
OnTemplate(t, h) ==
    /\ Len(handlers) < MaxRoutes
    /\ RoomForCallback
    /\ handlers' = Append(handlers,
                          Route(Predicate("template", _normalize_separators(t), ""), h))
    /\ NotACall
    /\ UNCHANGED <<types, compiled, templates, before, after, metrics, history,
                   keep_history, ncalls, log, threads, seen,
                   mqtt, remote, context>>

\* before(handler)
Before(h) ==
    /\ Len(before) < MaxMiddleware
    /\ RoomForCallback
    /\ before' = Append(before, h)
    /\ NotACall
    /\ UNCHANGED <<types, compiled, templates, handlers, after, metrics, history,
                   keep_history, ncalls, log, threads, seen,
                   mqtt, remote, context>>

\* after(handler)
After(h) ==
    /\ Len(after) < MaxMiddleware
    /\ RoomForCallback
    /\ after' = Append(after, h)
    /\ NotACall
    /\ UNCHANGED <<types, compiled, templates, handlers, before, metrics, history,
                   keep_history, ncalls, log, threads, seen,
                   mqtt, remote, context>>

\* RegisterType whose new definition also replaces the regex inside the
\* patterns compiled so far: every template is compiled again.
RegisterTypeRecompiling(name, regex, converter) ==
    /\ types' = [k \in DOMAIN types \cup {LowerS(name)} |->
                    IF k = LowerS(name) THEN [rx |-> regex, conv |-> converter]
                    ELSE types[k]]
    /\ compiled' = CompileAll(templates, types')
    /\ NotACall
    /\ UNCHANGED <<templates, handlers, before, after, metrics, history,
                   keep_history, ncalls, log, threads, seen,
                   mqtt, remote, context>>

\* engine.types.register(name, regex, converter)
RegisterType(name, regex, converter) ==
    /\ types' = [k \in DOMAIN types \cup {LowerS(name)} |->
                    IF k = LowerS(name) THEN [rx |-> regex, conv |-> converter]
                    ELSE types[k]]
    /\ NotACall
    /\ UNCHANGED <<compiled, templates, handlers, before, after, metrics, history,
                   keep_history, ncalls, log, threads, seen,
                   mqtt, remote, context>>

\* Parse that counts its calls in the engine's metrics.
ParseCounting(text) ==
    /\ parsed' = [text |-> text, out |-> EngineParse(compiled, types, text)]
    /\ ret' = None
    /\ trace' = <<>>
    /\ added' = None
    /\ seen' = [text  |-> text,
                out   |-> parsed'.out,
                types |-> types,
                n     |-> IF seen # None /\ seen.text = text THEN Min(seen.n + 1, 2) ELSE 1]
    /\ metrics' = CounterInc(metrics, "parse.calls")
    /\ UNCHANGED <<types, compiled, templates, handlers, before, after,
                   history, keep_history, ncalls, log, threads,
                   mqtt, remote, context>>

\* parse(text).  seen.n is 2 when the call before it, on the same pattern
\* list, parsed the same text.
Parse(text) ==
    /\ parsed' = [text |-> text, out |-> EngineParse(compiled, types, text)]
    /\ ret' = None
    /\ trace' = <<>>
    /\ added' = None
    /\ seen' = [text  |-> text,
                out   |-> parsed'.out,
                types |-> types,
                n     |-> IF seen # None /\ seen.text = text THEN Min(seen.n + 1, 2) ELSE 1]
    /\ UNCHANGED <<types, compiled, templates, handlers, before, after, metrics,
                   history, keep_history, ncalls, log, threads,
                   mqtt, remote, context>>

\* A handler that writes evt["vars"]["x"] = "c" before it returns out.
WritingHandler(out) == [raises |-> FALSE, out |-> out, writes |-> TRUE]

\* d[key] = val on a dict
DictSet(d, key, val) == (key :> val) @@ d

\* The vars dict of a call after the callbacks ran: parse's dict, written to
\* by the handler that was called if it is a writing one.
VarsAfter(routes, calls, d) ==
    IF \E k \in 1..Len(calls) :
            calls[k].stage = "handler" /\ "writes" \in DOMAIN routes[calls[k].idx].handler
    THEN DictSet(d, <<"x">>, StrVal(<<"c">>))
    ELSE d

\* engine.handle(text, meta), whoever calls it.  time.time() is the logical
\* clock of handle calls.
\* Event(**evt) copies the references of evt's values, so the Event's vars is
\* the dict that evt["vars"] and the returned "vars" are; log keeps each
\* Event as it was when it was appended.
HandleCall(text, meta) ==
    \E evt \in {MakeEvt(compiled, types, text, meta, ncalls + 1)} :
    \E out \in {RunPipeline(before, handlers, after, evt, evt.template # None)} :
    \E shared \in {VarsAfter(handlers, out.calls, evt.vars)} :
        /\ history' = DequeAppend(history, keep_history, [evt EXCEPT !.vars = shared])
        /\ metrics' = CounterInc(CounterInc(metrics, "handle.calls"),
                                 OkKey(evt.template # None))
        /\ trace' = out.calls
        /\ ret' = [text |-> text, meta |-> meta, raised |-> out.raised,
                   value |-> IF out.raised THEN out.value
                             ELSE [out.value EXCEPT !.vars = shared]]
        /\ parsed' = None
        /\ added' = None
        /\ ncalls' = ncalls + 1
        /\ log' = Append(log, evt)
        /\ UNCHANGED <<types, compiled, templates, handlers, before, after, keep_history,
                       threads, seen>>

\* handle(text, meta) called by the application itself.
Handle(text, meta) == HandleCall(text, meta) /\ UNCHANGED <<mqtt, remote, context>>

\* The caller of the last handle() writes result["vars"]["y"] = "c" on the
\* object it was returned: the dict is the one the Event of that call holds.
CallerWritesResult ==
    LET shared == DictSet(ret.value.vars, <<"y">>, StrVal(<<"c">>)) IN
    /\ ret # None
    /\ ~ret.raised
    /\ ret' = [ret EXCEPT !.value.vars = shared]
    /\ history' = IF history = <<>> THEN history
                  ELSE [history EXCEPT ![Len(history)].vars = shared]
    /\ UNCHANGED <<types, compiled, templates, handlers, before, after, metrics,
                   keep_history, parsed, trace, added, seen, ncalls, log, threads,
                   mqtt, remote, context>>

-----------------------------------------------------------------------------
(* OmniLinkMQTTBridge._on_message.  A message is known by what              *)
(* msg.payload.decode("utf-8", "replace") and json.loads make of it: a text *)
(* that is not a JSON object, or an object with its "command", "meta" and   *)
(* "reply_to" (None when the key is missing or null).                       *)

RawMessage(text) == [json |-> FALSE, text |-> text]

JsonMessage(command, meta, reply_to) ==
    [json |-> TRUE, command |-> command, meta |-> meta, reply_to |-> reply_to]

\* self.response_topic, by default
response_topic == "olink/commands_feedback"

IsDict(v) == "some" \in DOMAIN v

\* Lines 845-864: command, meta and reply_to, or failed when the block raised
\* (meta.get on a meta that is not a mapping).
DecodeMessage(msg) ==
    IF ~msg.json
    THEN [failed |-> FALSE, command |-> StrVal(msg.text), meta |-> EmptyMeta,
          reply_to |-> None]
    ELSE LET meta == IF msg.meta = None \/ (IsDict(msg.meta) /\ DOMAIN msg.meta.some = {})
                     THEN EmptyMeta
                     ELSE IF IsDict(msg.meta) THEN msg.meta.some ELSE msg.meta
         IN  IF msg.reply_to # None
             THEN [failed |-> FALSE, command |-> msg.command, meta |-> meta,
                   reply_to |-> msg.reply_to]
             ELSE IF msg.meta # None /\ ~IsDict(msg.meta)
             THEN [failed |-> TRUE, command |-> msg.command, meta |-> meta,
                   reply_to |-> None]
             ELSE [failed |-> FALSE, command |-> msg.command, meta |-> meta,
                   reply_to |-> IF "reply_to" \in DOMAIN meta
                                THEN Some(meta["reply_to"]) ELSE None]

\* _resolve_reply_to
ResolveReplyTo(reply_to) == IF reply_to = None THEN response_topic ELSE reply_to.some

\* BlankCommand without the strip: only the type of the command is tested.
BlankCommandTypeOnly(command) == "s" \notin DOMAIN command

\* `not isinstance(command, str) or not command.strip()`
BlankCommand(command) ==
    \/ "s" \notin DOMAIN command
    \/ Strip(command.s) = <<>>

\* json.dumps({"feedback": feedback}) published on the topic
Feedback(topic, feedback) == [topic |-> topic, payload |-> [feedback |-> feedback]]

\* Lines 877-879: the feedback computed from what handle returned.
FeedbackOf(res) ==
    LET handler_failed == /\ res.result # None
                          /\ "error" \in DOMAIN res.result
                          /\ res.result.error # ""
    IN  res.ok /\ ~handler_failed

\* The message was answered without a handle call.
Rejected(msg, topic) ==
    /\ mqtt' = [delivered |-> mqtt.delivered + 1,
                published |-> Append(mqtt.published, Feedback(topic, FALSE)),
                steps     |-> <<"publish">>,
                last      |-> Some(msg),
                call      |-> 0]
    /\ NotACall
    /\ UNCHANGED <<types, compiled, templates, handlers, before, after, metrics,
                   history, keep_history, seen, ncalls, log, threads, remote, context>>

\* Publishing before the command is handled, with the feedback of a command
\* that did not match.
OnMessagePublishFirst(msg) ==
    LET d == DecodeMessage(msg) IN
    IF d.failed THEN Rejected(msg, ResolveReplyTo(None))
    ELSE IF BlankCommand(d.command) THEN Rejected(msg, ResolveReplyTo(d.reply_to))
    ELSE /\ HandleCall(d.command.s, Some(d.meta))
         /\ mqtt' = [delivered |-> mqtt.delivered + 1,
                     published |-> Append(mqtt.published,
                                          Feedback(ResolveReplyTo(d.reply_to), FALSE)),
                     steps     |-> <<"publish", "handle">>,
                     last      |-> Some(msg),
                     call      |-> ncalls']
         /\ UNCHANGED <<remote, context>>

\* _on_message(client, userdata, msg)
OnMessage(msg) ==
    LET d == DecodeMessage(msg) IN
    IF d.failed THEN Rejected(msg, ResolveReplyTo(None))
    ELSE IF BlankCommand(d.command) THEN Rejected(msg, ResolveReplyTo(d.reply_to))
    ELSE /\ HandleCall(d.command.s, Some(d.meta))
         /\ mqtt' = [delivered |-> mqtt.delivered + 1,
                     published |-> Append(mqtt.published,
                                     Feedback(ResolveReplyTo(d.reply_to),
                                              IF ret'.raised THEN FALSE
                                              ELSE FeedbackOf(ret'.value))),
                     steps     |-> <<"handle", "publish">>,
                     last      |-> Some(msg),
                     call      |-> ncalls']
         /\ UNCHANGED <<remote, context>>

-----------------------------------------------------------------------------
(* OmniLinkRemoteCommandBridge.  start() and stop() are called by the       *)
(* application's thread; loop_forever runs in the thread start() created,   *)
(* one statement per step.                                                  *)

\* What fetch_last_command gave: it raised RequestException, it returned no
\* record, or it returned a record.
FetchError == [raised |-> TRUE]

NoRecord == [none |-> TRUE]

Record(last_command, updated_at) == [last_command |-> last_command, updated_at |-> updated_at]

IsRecord(fetched) == "last_command" \in DOMAIN fetched

\* (command, updated_at) of a record
Signature(rec) == <<Strip(rec.last_command), rec.updated_at>>

\* meta of a remote command, the nested "remote" mapping written with dotted keys
RemoteMeta(rec) == ("source" :> "remote") @@ ("remote.updated_at" :> rec.updated_at)

\* process_once goes as far as engine.handle.
Handles(fetched) ==
    /\ IsRecord(fetched)
    /\ Strip(fetched.last_command) # <<>>
    /\ Some(Signature(fetched)) # remote.last_signature

\* process_once(): the engine's part and self._last_signature afterwards.
\* updated is whether update_last_response returned (no RequestException).
ProcessOnce(fetched, updated) ==
    IF Handles(fetched)
    THEN /\ HandleCall(Strip(fetched.last_command), Some(RemoteMeta(fetched)))
         /\ UNCHANGED <<mqtt, context>>
    ELSE /\ NotACall
         /\ UNCHANGED <<types, compiled, templates, handlers, before, after, metrics,
                        history, keep_history, seen, ncalls, log, threads, mqtt, context>>

\* SignatureAfter with the assignment outside the try: the signature is
\* remembered whether or not the response was written.
SignatureAfterHandle(fetched, updated) ==
    IF Handles(fetched) THEN Some(Signature(fetched)) ELSE remote.last_signature

SignatureAfter(fetched, updated) ==
    IF Handles(fetched) /\ updated THEN Some(Signature(fetched)) ELSE remote.last_signature

EngineUntouched ==
    /\ NotACall
    /\ UNCHANGED <<types, compiled, templates, handlers, before, after, metrics,
                   history, keep_history, seen, ncalls, log, threads, mqtt, context>>

ThreadAlive == remote.thread # 0 /\ remote.loops[remote.thread] # "done"

\* start()
RemoteStart ==
    /\ remote.caller = "idle"
    /\ IF ThreadAlive
       THEN remote' = [remote EXCEPT !.op = "start: already running"]
       ELSE /\ Len(remote.loops) < MaxLoops
            /\ remote' = [remote EXCEPT !.stop_event = FALSE,
                                        !.loops = Append(remote.loops, "new"),
                                        !.thread = Len(remote.loops) + 1,
                                        !.stop_called = FALSE,
                                        !.op = "start"]
    /\ EngineUntouched

\* stop(), up to the join: the event is set; when no thread is alive the call
\* is over.
RemoteStop ==
    /\ remote.caller = "idle"
    /\ remote' = [remote EXCEPT !.stop_event = TRUE,
                                !.stop_called = TRUE,
                                !.caller = IF ThreadAlive THEN "joining" ELSE "idle",
                                !.thread = IF ThreadAlive THEN remote.thread ELSE 0,
                                !.op = "stop"]
    /\ EngineUntouched

\* join(timeout=poll_interval * 2) returns, the thread finished or not, and
\* stop() ends with self._thread = None.
RemoteStopReturn ==
    /\ remote.caller = "joining"
    /\ remote' = [remote EXCEPT !.caller = "idle", !.thread = 0]
    /\ EngineUntouched

LoopAt(l, pc) == l \in 1..Len(remote.loops) /\ remote.loops[l] = pc

\* loop_forever: self._stop_event.clear()
LoopBegin(l) ==
    /\ LoopAt(l, "new")
    /\ remote' = [remote EXCEPT !.stop_event = FALSE, !.loops[l] = "check"]
    /\ EngineUntouched

\* while not self._stop_event.is_set()
LoopCheck(l) ==
    /\ LoopAt(l, "check")
    /\ remote' = [remote EXCEPT !.loops[l] = IF remote.stop_event THEN "done" ELSE "poll"]
    /\ EngineUntouched

\* The bridge after process_once(): self._last_signature, and what the call
\* did.
Polled(fetched, updated) ==
    [remote EXCEPT
       !.last_signature = SignatureAfter(fetched, updated),
       !.poll = [tick     |-> (remote.poll = None \/ ~remote.poll.tick),
                 fetched  |-> fetched,
                 updated  |-> Handles(fetched) /\ updated,
                 returned |-> IF Handles(fetched) THEN Some(ret'.value) ELSE None],
       !.written = IF Handles(fetched) /\ updated
                   THEN remote.written \cup {fetched}
                   ELSE remote.written]

\* process_once() called by the application
RemoteProcessOnce(fetched, updated) ==
    /\ remote.caller = "idle"
    /\ ProcessOnce(fetched, updated)
    /\ remote' = [Polled(fetched, updated) EXCEPT !.op = "process_once"]

\* self.process_once()
LoopPoll(l, fetched, updated) ==
    /\ LoopAt(l, "poll")
    /\ Handles(fetched) => ncalls < MaxCalls
    /\ ProcessOnce(fetched, updated)
    /\ remote' = [Polled(fetched, updated) EXCEPT !.loops[l] = "wait"]

\* self._stop_event.wait(self.poll_interval) returns, the event set or the
\* interval over.
LoopWait(l) ==
    /\ LoopAt(l, "wait")
    /\ remote' = [remote EXCEPT !.loops[l] = "check"]
    /\ EngineUntouched

-----------------------------------------------------------------------------
(* start_periodic_context / stop_periodic_context, called one after the    *)
(* other by the application, and the _loop threads they start, one          *)
(* statement per step.                                                      *)

ContextUntouched ==
    /\ NotACall
    /\ UNCHANGED <<types, compiled, templates, handlers, before, after, metrics,
                   history, keep_history, seen, ncalls, log, threads, mqtt, remote>>

\* stop_periodic_context() on the loops: the event in _CONTEXT_STOP is set.
StopEventSet(loops, stop) ==
    IF stop = 0 THEN loops ELSE [loops EXCEPT ![stop].stop_evt = TRUE]

\* start_periodic_context that leaves the loop already running alone.
StartPeriodicContextKeepsOld(message) ==
    /\ Len(context.loops) < MaxContextLoops
    /\ context' = [context EXCEPT
                     !.loops = Append(context.loops,
                                      [pc |-> "first", stop_evt |-> FALSE, message |-> message]),
                     !.stop = Len(context.loops) + 1,
                     !.thread = Len(context.loops) + 1,
                     !.op = "start"]
    /\ ContextUntouched

\* start_periodic_context(interval_seconds, message)
StartPeriodicContext(message) ==
    /\ Len(context.loops) < MaxContextLoops
    /\ context' = [context EXCEPT
                     !.loops = Append(StopEventSet(context.loops, context.stop),
                                      [pc |-> "first", stop_evt |-> FALSE, message |-> message]),
                     !.stop = Len(context.loops) + 1,
                     !.thread = Len(context.loops) + 1,
                     !.op = "start"]
    /\ ContextUntouched

\* stop_periodic_context()
StopPeriodicContext ==
    /\ context' = [context EXCEPT !.loops = StopEventSet(context.loops, context.stop),
                                  !.stop = 0,
                                  !.thread = 0,
                                  !.op = "stop"]
    /\ ContextUntouched

ContextLoopAt(l, pc) == l \in 1..Len(context.loops) /\ context.loops[l].pc = pc

\* give_context(_producer()): the first immediate push, or a periodic one.
ContextPush(l) ==
    /\ ContextLoopAt(l, "first") \/ ContextLoopAt(l, "push")
    /\ context' = [context EXCEPT
                     !.loops[l].pc = "wait",
                     !.published = context.published \cup {context.loops[l].message}]
    /\ ContextUntouched

\* `while not stop_evt.wait(interval_seconds)`: wait returns true when the
\* loop's event is set, false when the interval is over.
ContextWait(l) ==
    /\ ContextLoopAt(l, "wait")
    /\ context' = [context EXCEPT
                     !.loops[l].pc = IF context.loops[l].stop_evt THEN "done" ELSE "push"]
    /\ ContextUntouched

-----------------------------------------------------------------------------
(* handle() as several threads run it on one engine.  The engine takes no   *)
(* lock, so a call is a sequence of steps, each a statement of handle()     *)
(* that reads or writes the engine, and the steps of different threads      *)
(* interleave.  `c[k] += 1` on the Counter is a read of c[k] (which runs    *)
(* Counter.__missing__ for a key not yet counted) followed by a store.      *)
(* threads[t].pc says which statement thread t runs next.                   *)

At(t, pc) == threads[t].pc = pc

Goto(t, pc) == threads' = [threads EXCEPT ![t].pc = pc]

\* c[k] = v
CounterSet(c, k, v) == [x \in DOMAIN c \cup {k} |-> IF x = k THEN v ELSE CounterGet(c, x)]

\* Thread t enters handle(text, meta): meta, ts, parsed and evt are built.
ThreadHandle(t, text, meta) ==
    LET evt == MakeEvt(compiled, types, text, meta, ncalls + 1) IN
    /\ At(t, "idle")
    /\ threads' = [threads EXCEPT ![t] =
                     [Idle EXCEPT !.pc = "append", !.evt = Some(evt),
                                  !.ok = (evt.template # None)]]
    /\ ncalls' = ncalls + 1
    /\ UNCHANGED <<types, compiled, templates, handlers, before, after, metrics,
                   history, keep_history, parsed, ret, trace, added, seen, log,
                   mqtt, remote, context>>

\* self.history.append(Event(**evt))
ThreadHistoryAppend(t) ==
    /\ At(t, "append")
    /\ history' = DequeAppend(history, keep_history, threads[t].evt.some)
    /\ log' = Append(log, threads[t].evt.some)
    /\ Goto(t, "load_calls")
    /\ UNCHANGED <<types, compiled, templates, handlers, before, after, metrics,
                   keep_history, parsed, ret, trace, added, seen, ncalls,
                   mqtt, remote, context>>

\* The counter a thread at a load or store of `+= 1` is working on
CounterKeyAt(t) ==
    IF threads[t].pc \in {"load_calls", "store_calls"} THEN "handle.calls"
    ELSE OkKey(threads[t].ok)

\* The read of `self.metrics[key] += 1`
ThreadCounterLoad(t) ==
    /\ threads[t].pc \in {"load_calls", "load_ok"}
    /\ threads' = [threads EXCEPT
                     ![t].loaded = CounterGet(metrics, CounterKeyAt(t)),
                     ![t].pc = IF At(t, "load_calls") THEN "store_calls" ELSE "store_ok"]
    /\ UNCHANGED <<types, compiled, templates, handlers, before, after, metrics,
                   history, keep_history, parsed, ret, trace, added, seen, ncalls, log,
                   mqtt, remote, context>>

\* The store of `self.metrics[key] += 1`
ThreadCounterStore(t) ==
    /\ threads[t].pc \in {"store_calls", "store_ok"}
    /\ metrics' = CounterSet(metrics, CounterKeyAt(t), threads[t].loaded + 1)
    /\ threads' = [threads EXCEPT
                     ![t].loaded = 0,
                     ![t].pc = IF At(t, "store_calls") THEN "load_ok" ELSE "before"]
    /\ UNCHANGED <<types, compiled, templates, handlers, before, after, history,
                   keep_history, parsed, ret, trace, added, seen, ncalls, log,
                   mqtt, remote, context>>

\* The before loop (no middleware is registered on this engine), then
\* `for pred, handler in self._handlers` starts its iteration.
ThreadRoutesBegin(t) ==
    /\ At(t, "before")
    /\ before = <<>>
    /\ threads' = [threads EXCEPT ![t].pc = "routes", ![t].i = 1,
                                  ![t].n0 = Len(handlers)]
    /\ UNCHANGED <<types, compiled, templates, handlers, before, after, metrics,
                   history, keep_history, parsed, ret, trace, added, seen, ncalls, log,
                   mqtt, remote, context>>

\* The end of the call: the after loop (no middleware) and the return.
Return(t, result, ran) ==
    /\ after = <<>>
    /\ threads' = [threads EXCEPT ![t].pc = "idle", ![t].i = 0, ![t].result = result,
                                  ![t].ran = ran]

\* One turn of the routing loop: the list iterator takes the item at its
\* index from the list as it is now.
ThreadRouteStep(t) ==
    LET i == threads[t].i IN
    /\ At(t, "routes")
    /\ IF i > Len(handlers) THEN Return(t, None, 0)
       ELSE LET p == CallPredicate(handlers[i].pred, threads[t].evt.some)
                h == handlers[i].handler
            IN  IF p.raised THEN Return(t, ErrorResult(p.msg), 0)
                ELSE IF p.value /\ h.raises THEN Return(t, ErrorResult(h.out), i)
                ELSE IF p.value THEN Return(t, Returned(h.out), i)
                ELSE threads' = [threads EXCEPT ![t].i = i + 1]
    /\ UNCHANGED <<types, compiled, templates, handlers, before, after, metrics,
                   history, keep_history, parsed, ret, trace, added, seen, ncalls, log,
                   mqtt, remote, context>>

-----------------------------------------------------------------------------
(* parse() and add_template() as several threads run them on one engine.    *)
(* `for cp in self._compiled` takes the item at the iterator's index from   *)
(* the list as it is at that turn; add_template compiles, then appends to   *)
(* _compiled, then appends to _templates.                                   *)

\* The index the list iterator moves to after the item at i.
ScanSkipsOne(i) == i + 2

ScanNext(i) == i + 1

\* Thread t enters parse(text): tnorm is computed and the iteration starts.
ThreadParse(t, text) ==
    /\ At(t, "idle")
    /\ threads' = [threads EXCEPT ![t] =
                     [Idle EXCEPT !.pc = "scan", !.text = text, !.i = 1,
                                  !.n0 = Len(compiled)]]
    /\ UNCHANGED <<types, compiled, templates, handlers, before, after, metrics,
                   history, keep_history, parsed, ret, trace, added, seen, ncalls, log,
                   mqtt, remote, context>>

\* One turn of parse's loop, or its end when the iterator is exhausted.
ThreadScanStep(t) ==
    LET i     == threads[t].i
        tnorm == _normalize_separators(threads[t].text)
        done(out) == [threads EXCEPT ![t].pc = "idle", ![t].i = 0,
                                     ![t].n1 = Len(compiled), ![t].result = Some(out)]
    IN  /\ At(t, "scan")
        /\ threads' =
             IF i > Len(compiled) THEN done(Unmatched)
             ELSE LET out == ParseFrom(<<compiled[i]>>, types, tnorm, 1) IN
                  IF out.ok THEN done(out)
                  ELSE [threads EXCEPT ![t].i = ScanNext(i)]
        /\ UNCHANGED <<types, compiled, templates, handlers, before, after, metrics,
                       history, keep_history, parsed, ret, trace, added, seen, ncalls, log,
                   mqtt, remote, context>>

\* Patterns registered or about to be: the list and the compiled patterns
\* threads hold between the compile and the append.
PatternsInHand == Len(compiled) + Cardinality({t \in Threads : threads[t].cp # None})

\* Thread t enters add_template(template): the template is compiled; a
\* ValueError ends the call.
ThreadAddTemplate(t, template) ==
    LET cp == _compile_template(template, types) IN
    /\ At(t, "idle")
    /\ PatternsInHand < MaxAdded
    /\ threads' = [threads EXCEPT ![t] =
                     IF cp.raised THEN Idle
                     ELSE [Idle EXCEPT !.pc = "add_compiled", !.text = template,
                                       !.cp = Some(cp)]]
    /\ UNCHANGED <<types, compiled, templates, handlers, before, after, metrics,
                   history, keep_history, parsed, ret, trace, added, seen, ncalls, log,
                   mqtt, remote, context>>

\* self._compiled.append(cp)
ThreadAppendCompiled(t) ==
    /\ At(t, "add_compiled")
    /\ compiled' = Append(compiled, threads[t].cp.some)
    /\ threads' = [threads EXCEPT ![t].pc = "add_templates", ![t].cp = None]
    /\ UNCHANGED <<types, templates, handlers, before, after, metrics, history,
                   keep_history, parsed, ret, trace, added, seen, ncalls, log,
                   mqtt, remote, context>>

\* self._templates.append(template)
ThreadAppendTemplates(t) ==
    /\ At(t, "add_templates")
    /\ templates' = Append(templates, threads[t].text)
    /\ threads' = [threads EXCEPT ![t] = Idle]
    /\ UNCHANGED <<types, compiled, handlers, before, after, metrics, history,
                   keep_history, parsed, ret, trace, added, seen, ncalls, log,
                   mqtt, remote, context>>

-----------------------------------------------------------------------------
(* Specifications *)

\* The handle pipeline: an engine built from two templates, with callers
\* that register routes and middleware and call handle.
Init == Construct(<<TplGoX, TplSetN>>, 1)

Next ==
    \/ \E r \in Routes : On(r.pred, r.handler)
    \/ OnTemplate(TplGoX, RouteHandler(FALSE, "r2"))
    \/ \E h \in Middlewares : Before(h)
    \/ \E h \in Middlewares : After(h)
    \/ \E text \in PipelineTexts, meta \in Metas : ncalls < MaxCalls /\ Handle(text, meta)

Spec == Init /\ [][Next]_vars

\* Template registration and parse: an engine built with no patterns.
InitParse == Construct(<<>>, KeepHistoryDefault)

NextParse ==
    \/ \E t \in TemplatePool : AddTemplate(t)
    \/ \E text \in ParseTexts : Parse(text)

SpecParse == InitParse /\ [][NextParse]_vars

\* History and counters: an engine of a small capacity or of the default
\* one, with callers that only call handle; after the first MaxCalls calls
\* the texts come in turn.
InitRing == \E keep \in (0..MaxKeep) \cup {KeepHistoryDefault} :
                Construct(<<TplGoX, TplSetN>>, keep)

HandleAny == \E text \in HandleTexts, meta \in Metas : ncalls < MaxCalls /\ Handle(text, meta)

HandleInTurn == /\ ncalls >= MaxCalls
                /\ ncalls < MaxRingCalls
                /\ Handle(RingText(ncalls), None)

NextRing == HandleAny \/ HandleInTurn

SpecRing == InitRing /\ [][NextRing]_vars

\* Threads: an engine of capacity 1 or the default one, whose threads call
\* handle and register routes with on() while calls are in progress.
ThreadRoutes ==
    {Route(Predicate("true", <<>>, ""), RouteHandler(FALSE, "r1")),
     Route(Predicate("false", <<>>, ""), RouteHandler(FALSE, "r1"))}

InitThreads == \E keep \in {1, KeepHistoryDefault} : Construct(<<TplGoX, TplSetN>>, keep)

NextThreads ==
    \/ \E t \in Threads, text \in PipelineTexts, meta \in Metas :
            ncalls < MaxThreadCalls /\ ThreadHandle(t, text, meta)
    \/ \E t \in Threads : ThreadHistoryAppend(t)
    \/ \E t \in Threads : ThreadCounterLoad(t)
    \/ \E t \in Threads : ThreadCounterStore(t)
    \/ \E t \in Threads : ThreadRoutesBegin(t)
    \/ \E t \in Threads : ThreadRouteStep(t)
    \/ \E r \in ThreadRoutes : On(r.pred, r.handler)

SpecThreads == InitThreads /\ [][NextThreads]_vars

\* Readers and writers of the pattern list: an engine built with no
\* patterns, whose threads call parse and add_template.
ReaderTemplates == {TplGoX, TplSetN, TplUnknownType}

ReaderTexts == {TxtGo7, TxtSet42}

InitReaders == Construct(<<>>, KeepHistoryDefault)

NextReaders ==
    \/ \E t \in Threads, text \in ReaderTexts : ThreadParse(t, text)
    \/ \E t \in Threads : ThreadScanStep(t)
    \/ \E t \in Threads, template \in ReaderTemplates : ThreadAddTemplate(t, template)
    \/ \E t \in Threads : ThreadAppendCompiled(t)
    \/ \E t \in Threads : ThreadAppendTemplates(t)

SpecReaders == InitReaders /\ [][NextReaders]_vars

\* All the operations of one engine together, each with few inputs: an
\* engine built from one template, whose callers add templates, register one
\* route and one middleware of each kind, parse, call handle, and register
\* `int` again as digits with no converter.
EngineTemplates == {TplSetN, TplUnknownType}

EngineTexts == {TxtGo7, TxtSet42}

InitEngine == Construct(<<TplGoX>>, 1)

NextEngine ==
    \/ \E t \in EngineTemplates : AddTemplate(t)
    \/ handlers = <<>> /\ On(Predicate("true", <<>>, ""), RouteHandler(FALSE, "r1"))
    \/ before = <<>> /\ Before(Middleware(FALSE))
    \/ after = <<>> /\ After(Middleware(TRUE))
    \/ \E text \in EngineTexts : Parse(text)
    \/ ncalls < MaxCalls /\ Handle(TxtSet42, None)
    \/ RegisterType(<<"I", "n", "t">>, "\\d+", "none")

SpecEngine == InitEngine /\ [][NextEngine]_vars

\* Types: an engine built with no patterns, whose callers register types,
\* add templates that name them and parse.
\*   f    registered with a converter that raises on every input
\*   F    registered again (the same name, lower-cased) as digits read by int()
\*   int  registered again with the regex of `any`
TypePool ==
    {[name |-> <<"f">>, rx |-> "[A-Za-z]+", conv |-> "fail"],
     [name |-> <<"F">>, rx |-> "\\d+", conv |-> "int"],
     [name |-> <<"i", "n", "t">>, rx |-> ".+", conv |-> "int"]}

TypedTemplates == {TplGoFN, TplGoXInt}

TypedTexts == {TxtGoAb7, TxtGo127, TxtGoAb, TxtGo7}

InitTypes == Construct(<<>>, KeepHistoryDefault)

NextTypes ==
    \/ \E ty \in TypePool : RegisterType(ty.name, ty.rx, ty.conv)
    \/ \E t \in TypedTemplates : AddTemplate(t)
    \/ \E text \in TypedTexts : Parse(text)

SpecTypes == InitTypes /\ [][NextTypes]_vars

\* Meta: an engine of capacity 2 built from one template, whose callers
\* register a route and a before-middleware and call handle with and
\* without a meta mapping.
InitMeta == Construct(<<TplGoX>>, 2)

NextMeta ==
    \/ On(Predicate("true", <<>>, ""), RouteHandler(FALSE, "r1"))
    \/ Before(Middleware(FALSE))
    \/ \E text \in PipelineTexts, meta \in CallerMetas :
            ncalls < MaxCalls /\ Handle(text, meta)

SpecMeta == InitMeta /\ [][NextMeta]_vars

\* Shared dicts: an engine of capacity 2 built from one template, whose
\* callers register a route with a handler that writes to evt["vars"] or one
\* that does not, call handle, and write to the result they were returned.
InitShared == Construct(<<TplGoX>>, 2)

NextShared ==
    \/ handlers = <<>> /\ On(Predicate("true", <<>>, ""), WritingHandler("r1"))
    \/ handlers = <<>> /\ On(Predicate("true", <<>>, ""), RouteHandler(FALSE, "r1"))
    \/ \E text \in PipelineTexts, meta \in CallerMetas : ncalls < MaxCalls /\ Handle(text, meta)
    \/ CallerWritesResult

SpecShared == InitShared /\ [][NextShared]_vars

\* Token forms: an engine whose callers register templates of every token
\* form and parse texts in either letter case.
TokenTemplates == {TplGoX, TplSetN, TplEmptyToken, TplNamedAnon, TplInner, TplInnerInt}

TokenTexts == {TxtGoCapX, TxtSetAB42, TxtSetAb, TxtGoBrackets, TxtGoAb, Txt42Go, Txt427}

InitTokens == Construct(<<>>, KeepHistoryDefault)

NextTokens ==
    \/ \E t \in TokenTemplates :
            /\ \A i \in 1..Len(templates) : templates[i] # t
            /\ AddTemplate(t)
    \/ \E text \in TokenTexts : Parse(text)

SpecTokens == InitTokens /\ [][NextTokens]_vars

\* The MQTT bridge on an engine with one template: the application
\* registers a route, the client delivers messages.
MqttRoutes ==
    {Route(Predicate("true", <<>>, ""), RouteHandler(FALSE, "r1")),
     Route(Predicate("true", <<>>, ""), RouteHandler(TRUE, "handler failed")),
     Route(Predicate("true", <<>>, ""), RouteHandler(TRUE, "")),
     Route(Predicate("true", <<>>, ""), ErrorReturningHandler("rejected")),
     Route(Predicate("raise", <<>>, "predicate failed"), RouteHandler(FALSE, "r1")),
     Route(Predicate("false", <<>>, ""), RouteHandler(FALSE, "r1"))}

\* "?" stands for U+FFFD, what decode(..., "replace") makes of bytes that are
\* not UTF-8.
Messages ==
    {RawMessage(TxtGo7), RawMessage(TxtStop), RawMessage(<<" ">>), RawMessage(<<>>),
     RawMessage(<<"?">>),
     JsonMessage(StrVal(TxtGo7), None, None),
     JsonMessage(StrVal(TxtGo7), Some(("reply_to" :> "topic") @@ ("source" :> "mqtt")), None),
     JsonMessage(StrVal(TxtStop), Some(EmptyMeta), Some("reply")),
     JsonMessage(StrVal(TxtGo7), StrVal(<<"a">>), None),
     JsonMessage(StrVal(TxtGo7), StrVal(<<"a">>), Some("reply")),
     JsonMessage(None, None, None),
     JsonMessage(IntVal(7), None, Some("reply")),
     JsonMessage(StrVal(<<" ">>), None, None)}

InitMqtt == Construct(<<TplGoX>>, 2)

NextMqtt ==
    \/ \E r \in MqttRoutes : handlers = <<>> /\ On(r.pred, r.handler)
    \/ \E msg \in Messages : mqtt.delivered < MaxMessages /\ OnMessage(msg)

SpecMqtt == InitMqtt /\ [][NextMqtt]_vars

\* The remote bridge: the application starts and stops it, the polling
\* threads take their steps, the remote end holds no record, a record, or
\* fails.  Every polling thread that can take a step eventually takes one
\* (the scheduler runs a runnable thread; wait and the requests time out).
Fetched == {FetchError, NoRecord, Record(TxtGo7, "t1"), Record(TxtStop, "t2"),
            Record(<<" ">>, "t3")}

Loops == 1..MaxLoops

LoopStep(l) ==
    \/ LoopBegin(l)
    \/ LoopCheck(l)
    \/ \E fetched \in Fetched, updated \in BOOLEAN : LoopPoll(l, fetched, updated)
    \/ LoopWait(l)

InitRemote == Construct(<<TplGoX>>, 2)

NextRemote ==
    \/ RemoteStart
    \/ RemoteStop
    \/ RemoteStopReturn
    \/ \E l \in Loops : LoopStep(l)

SpecRemoteFair ==
    InitRemote /\ [][NextRemote]_vars /\ \A l \in Loops : WF_vars(LoopStep(l))

\* Periodic context: the application starts and stops it, the loop threads
\* take their steps.  Every loop thread that can take a step eventually takes
\* one (the scheduler runs a runnable thread; wait returns when the event is
\* set or the interval is over).
ContextMessages == {"m1", "m2"}

ContextLoops == 1..MaxContextLoops

ContextLoopStep(l) == ContextPush(l) \/ ContextWait(l)

InitContext == Construct(<<>>, 2)

NextContext ==
    \/ \E message \in ContextMessages : StartPeriodicContext(message)
    \/ StopPeriodicContext
    \/ \E l \in ContextLoops : ContextLoopStep(l)

SpecContextFair ==
    InitContext /\ [][NextContext]_vars /\ \A l \in ContextLoops : WF_vars(ContextLoopStep(l))

-----------------------------------------------------------------------------
(* Claims about parse (SpecParse) *)

\* The registered patterns whose matcher matches the normalized text.
Matching(text) ==
    {i \in 1..Len(compiled) : RegexMatch(compiled[i], _normalize_separators(text)).matched}

\* The capture names the tokens of a template declare: the token's name, or
\* var<k> for the k-th token when it has none.
DeclaredNames(template) ==
    LET toks == FindTokens(_normalize_separators(template), 1) IN
    {IF _parse_token(toks[k].inner).name = <<>> THEN VarName(k)
     ELSE _parse_token(toks[k].inner).name : k \in 1..Len(toks)}

\* C1: when one or more registered templates match the input, parse reports
\* the one registered earliest among them (its template, its normalized text
\* and the captures of its match), whatever the order of the add_template calls.
C1_FirstRegisteredWins ==
    parsed # None =>
        \A i \in Matching(parsed.text) :
            (\A j \in Matching(parsed.text) : i <= j) =>
                /\ parsed.out.ok
                /\ parsed.out.template = Some(templates[i])
                /\ parsed.out.normalized_template = Some(_normalize_separators(templates[i]))
                /\ parsed.out.vars =
                       BuildVars(types, compiled[i],
                           RegexMatch(compiled[i], _normalize_separators(parsed.text)).groups)

\* Two different registered templates match the input and parse has answered.
C1_Witness ==
    /\ parsed # None
    /\ \E i, j \in Matching(parsed.text) :
           /\ i < j
           /\ templates[i] # templates[j]
           /\ parsed.out.template = Some(templates[i])

-----------------------------------------------------------------------------
(* Claims about the handle pipeline (Spec).  In a state where ret # None   *)
(* the last operation was a handle call: trace holds its callback calls,   *)
(* log's last event is the call's event, and the routes and middleware are *)
(* the ones the call ran with.                                             *)

ResultFields == {"ok", "template", "normalized_template", "vars", "result", "meta",
                 "timestamp"}

LastEvt == log[Len(log)]

\* Positions of trace where callback idx of a stage was called.
CallsOf(stage, idx) ==
    {k \in 1..Len(trace) : trace[k].stage = stage /\ trace[k].idx = idx}

StageCalls(stage) == {k \in 1..Len(trace) : trace[k].stage = stage}

\* Positions of trace where a predicate or a handler raised.
RouteFaults ==
    {k \in 1..Len(trace) : trace[k].stage \in {"pred", "handler"} /\ trace[k].raised}

\* Positions of trace where a middleware raised.
MiddlewareFaults ==
    {k \in 1..Len(trace) : trace[k].stage \in {"before", "after"} /\ trace[k].raised}

\* C3: handle never lets an exception escape; whatever the callbacks do
\* (raising ones included) the call returns an object with the fields ok,
\* template, normalized_template, vars, result, meta and timestamp.
C3_HandleAlwaysReturns ==
    ret # None => /\ ~ret.raised
                  /\ DOMAIN ret.value = ResultFields

\* A call in which a before-middleware, a route and an after-middleware raised.
C3_Witness ==
    /\ ret # None
    /\ RouteFaults # {}
    /\ \E k \in MiddlewareFaults : trace[k].stage = "before"
    /\ \E k \in MiddlewareFaults : trace[k].stage = "after"

\* C4: the routes are scanned in registration order; at most one handler runs
\* per call, it is the handler of the first route whose predicate returns
\* true, and what it returns is the result field of the returned object.
C4_FirstTrueRouteOnly ==
    ret # None =>
        /\ Cardinality(StageCalls("handler")) <= 1
        /\ \A k1, k2 \in StageCalls("pred") : k1 < k2 => trace[k1].idx < trace[k2].idx
        /\ \A k \in StageCalls("pred") :
               \A i \in 1..(trace[k].idx - 1) : \E k0 \in CallsOf("pred", i) : k0 < k
        /\ \A k \in StageCalls("handler") :
               LET i == trace[k].idx IN
               /\ CallPredicate(handlers[i].pred, LastEvt).value
               /\ \A j \in 1..(i - 1) :
                      /\ ~CallPredicate(handlers[j].pred, LastEvt).raised
                      /\ ~CallPredicate(handlers[j].pred, LastEvt).value
               /\ ~handlers[i].handler.raises =>
                      ret.value.result = Returned(handlers[i].handler.out)

\* The first route's handler ran and returned; the second route's predicate
\* is true as well, with a handler that returns something else.
C4_Witness ==
    /\ ret # None
    /\ Len(handlers) = 2
    /\ CallPredicate(handlers[1].pred, LastEvt).value
    /\ CallPredicate(handlers[2].pred, LastEvt).value
    /\ handlers[1].handler = RouteHandler(FALSE, "r1")
    /\ handlers[2].handler = RouteHandler(FALSE, "r2")
    /\ ret.value.result = Returned("r1")

\* C5: when a route's predicate or handler raises, the result is the error
\* object {error: message}, no later route's predicate or handler is
\* evaluated in that call, and every after-middleware still runs.
C5_RouteFaultStopsRouting ==
    ret # None =>
        \A k \in RouteFaults :
            LET i == trace[k].idx IN
            /\ ret.value.result =
                   ErrorResult(IF trace[k].stage = "pred" THEN handlers[i].pred.msg
                               ELSE handlers[i].handler.out)
            /\ \A k2 \in StageCalls("pred") \cup StageCalls("handler") : trace[k2].idx <= i
            /\ \A a \in 1..Len(after) : \E k2 \in CallsOf("after", a) : k2 > k

\* The first route raised, a second route is registered, two after-middleware.
C5_Witness ==
    /\ ret # None
    /\ \E k \in RouteFaults : trace[k].idx = 1
    /\ Len(handlers) = 2
    /\ Len(after) = 2

\* C6: every registered before-middleware and every registered
\* after-middleware is invoked exactly once in every handle call, matched or
\* not, routed or not.
C6_MiddlewareOncePerCall ==
    ret # None =>
        /\ \A i \in 1..Len(before) : Cardinality(CallsOf("before", i)) = 1
        /\ \A i \in 1..Len(after) : Cardinality(CallsOf("after", i)) = 1
        /\ Cardinality(StageCalls("before")) = Len(before)
        /\ Cardinality(StageCalls("after")) = Len(after)

\* An unmatched text that no route took, with two middleware on each side.
C6_Witness ==
    /\ ret # None
    /\ ~ret.value.ok
    /\ StageCalls("handler") = {}
    /\ Len(before) = 2
    /\ Len(after) = 2

\* C7: an exception a middleware raises is swallowed: the rest of its list,
\* the routing step and the later stages still run in that call, the call
\* returns, and the result carries an error only if a route raised.
C7_MiddlewareFaultSwallowed ==
    ret # None =>
        \A k \in MiddlewareFaults :
            LET list == IF trace[k].stage = "before" THEN before ELSE after IN
            /\ \A i \in (trace[k].idx + 1)..Len(list) :
                   \E k2 \in CallsOf(trace[k].stage, i) : k2 > k
            /\ trace[k].stage = "before" =>
                   /\ handlers # <<>> => \E k2 \in CallsOf("pred", 1) : k2 > k
                   /\ \A a \in 1..Len(after) : \E k2 \in CallsOf("after", a) : k2 > k
            /\ ~ret.raised
            /\ RouteFaults = {} =>
                   ret.value.result \in {None, Returned("r1"), Returned("r2")}

\* The first before-middleware and the first after-middleware raised, each
\* followed by a second one, around a route whose handler returned.
C7_Witness ==
    /\ ret # None
    /\ \E k \in CallsOf("before", 1) : trace[k].raised
    /\ \E k \in CallsOf("after", 1) : trace[k].raised
    /\ Len(before) = 2
    /\ Len(after) = 2
    /\ ret.value.result = Returned("r1")

-----------------------------------------------------------------------------
(* Claims about history and counters (SpecRing) *)

\* C8: the history of an engine built with the default capacity never holds
\* more than 200 events, however many handle calls are made.
C8_HistoryAtMostDefault == Len(history) <= KeepHistoryDefault

\* More calls than the default capacity were made on an engine of that capacity.
C8_Witness ==
    /\ keep_history = KeepHistoryDefault
    /\ ncalls > KeepHistoryDefault
    /\ Len(history) = KeepHistoryDefault

\* C9: after n calls the history holds exactly the events of the last
\* min(n, capacity) calls, in call order, one event per call.
C9_HistoryIsFifoRing ==
    /\ Len(log) = ncalls
    /\ \A i \in 1..Len(log) : log[i].timestamp = i
    /\ history = SubSeq(log, ncalls - Min(ncalls, keep_history) + 1, ncalls)

\* An engine of capacity 2 after four calls, holding two different events.
C9_Witness ==
    /\ keep_history = 2
    /\ ncalls >= 4
    /\ Len(history) = 2
    /\ history[1].command # history[2].command

\* The calls so far whose text matched a template, or did not.
CallsMatched(ok) == {i \in 1..Len(log) : (log[i].template # None) = ok}

\* C10: handle.calls is the number of calls made, each call having added one
\* to it and one to the handle.ok counter of its match outcome, so that
\* handle.calls is the sum of the two.
C10_CountersCountCalls ==
    /\ CounterGet(metrics, "handle.calls") = ncalls
    /\ CounterGet(metrics, "handle.ok.True") = Cardinality(CallsMatched(TRUE))
    /\ CounterGet(metrics, "handle.ok.False") = Cardinality(CallsMatched(FALSE))
    /\ CounterGet(metrics, "handle.calls") =
           CounterGet(metrics, "handle.ok.True") + CounterGet(metrics, "handle.ok.False")

\* Calls of both outcomes were made.
C10_Witness ==
    /\ ncalls >= 3
    /\ CounterGet(metrics, "handle.ok.True") >= 1
    /\ CounterGet(metrics, "handle.ok.False") >= 1

-----------------------------------------------------------------------------
(* Claims about concurrent calls (SpecThreads) *)

AllReturned == \A t \in Threads : At(t, "idle")

\* C11: once every concurrent handle() call has completed, handle.calls equals
\* the number of calls made and the history holds min(calls, capacity) events.
C11_NoLostUpdate ==
    AllReturned =>
        /\ CounterGet(metrics, "handle.calls") = ncalls
        /\ Len(history) = Min(ncalls, keep_history)

\* C12: the route whose handler a handle() call ran was in the route list when
\* that call began its scan of the routes.
C12_RouteScanIsSnapshot ==
    \A t \in Threads : threads[t].ran <= threads[t].n0

-----------------------------------------------------------------------------
(* Claims about concurrent readers and writers (SpecReaders) *)

\* parse(text) against the first n patterns of the list
ParseAgainstFirst(n, text) == EngineParse(SubSeq(compiled, 1, n), types, text)

\* C13: the result of a parse() that ran while other threads added templates
\* is the result of parsing against the pattern list as it was when the call
\* began or as it was when the call ended.
C13_ParseSeesOldOrNewList ==
    \A t \in Threads :
        (At(t, "idle") /\ threads[t].result # None) =>
            threads[t].result.some \in {ParseAgainstFirst(threads[t].n0, threads[t].text),
                                        ParseAgainstFirst(threads[t].n1, threads[t].text)}

\* A parse that began before a template was added and matched that template.
C13_Witness ==
    \E t \in Threads :
        /\ At(t, "idle") /\ threads[t].result # None
        /\ threads[t].n1 > threads[t].n0
        /\ threads[t].result.some.ok
        /\ ~ParseAgainstFirst(threads[t].n0, threads[t].text).ok

-----------------------------------------------------------------------------
(* Claims about add_template (SpecParse, SpecEngine) *)

\* The tokens of a template that name a type the registry does not have.
UnknownTypeTokens(template, reg) ==
    LET toks == FindTokens(_normalize_separators(template), 1) IN
    {k \in 1..Len(toks) :
        LET pt == _parse_token(toks[k].inner) IN
        pt.rx = <<>> /\ pt.typ # <<>> /\ LowerS(pt.typ) \notin DOMAIN reg}

\* C14: add_template of a template with a token of an unregistered type ends
\* with the unknown-type error, which names the template, and leaves the
\* compiled-pattern list and the template list as they were.
C14_UnknownTypeRegistersNothing ==
    [][(added' # None /\ UnknownTypeTokens(added'.template, types) # {}) =>
          /\ added'.raised # None
          /\ added'.raised.some.exc = "ValueError"
          /\ added'.raised.some.template = added'.template
          /\ added'.raised.some.typ # <<>>
          /\ compiled' = compiled
          /\ templates' = templates]_vars

\* An add_template that failed on an engine that has patterns.
C14_Witness ==
    /\ added # None
    /\ added.raised # None
    /\ compiled # <<>>

IsPrefix(old, new) == Len(old) <= Len(new) /\ SubSeq(new, 1, Len(old)) = old

\* C15: every operation leaves the patterns registered before it in place,
\* unchanged and in order, and an add_template that succeeds leaves routes,
\* middleware, history and counters as they were.
C15_AddTemplateOnlyAppends ==
    [][/\ IsPrefix(compiled, compiled')
       /\ IsPrefix(templates, templates')
       /\ (added' # None /\ added'.raised = None) =>
             /\ compiled' = Append(compiled, compiled'[Len(compiled')])
             /\ templates' = Append(templates, added'.template)
             /\ UNCHANGED <<handlers, before, after, history, metrics, mqtt, remote, context>>]_vars

\* An add_template that succeeded on an engine with a route, middleware,
\* history and counters.
C15_Witness ==
    /\ added # None
    /\ added.raised = None
    /\ Len(compiled) >= 2
    /\ handlers # <<>> /\ before # <<>> /\ after # <<>>
    /\ history # <<>>
    /\ CounterGet(metrics, "handle.calls") > 0

-----------------------------------------------------------------------------
(* Claims about types and conversion (SpecTypes) *)

\* The first registered pattern that matches the text of the last parse, and
\* the strings its groups captured.
FirstMatch == CHOOSE i \in Matching(parsed.text) : \A k \in Matching(parsed.text) : i <= k

Captured == RegexMatch(compiled[FirstMatch], _normalize_separators(parsed.text)).groups

\* The capture j of a pattern has a converter registered now, and it raises
\* on the string s.
ConverterFails(cp, j, s) ==
    /\ cp.var_types[j] # <<>>
    /\ LowerS(cp.var_types[j]) \in DOMAIN types
    /\ types[LowerS(cp.var_types[j])].conv # "none"
    /\ Convert(types[LowerS(cp.var_types[j])].conv, s).raised

\* C16: when the converter of a capture fails on the captured string, parse
\* reports the match with the raw string as that capture's value, and every
\* other capture of the match has the value it has without the failure.
C16_FailedConversionKeepsRaw ==
    (parsed # None /\ Matching(parsed.text) # {}) =>
        LET cp == compiled[FirstMatch] IN
        /\ parsed.out.ok
        /\ parsed.out.template = Some(cp.template)
        /\ DOMAIN parsed.out.vars = {cp.var_names[j] : j \in 1..Len(cp.var_names)}
        /\ \A j \in 1..Len(cp.var_names) :
              parsed.out.vars[cp.var_names[j]] =
                  IF ConverterFails(cp, j, Captured[j]) THEN StrVal(Captured[j])
                  ELSE CaptureValue(types, cp.var_types[j], Captured[j])

\* A match with two captures: the converter of one failed, the other's gave
\* an integer.
C16_Witness ==
    /\ parsed # None /\ Matching(parsed.text) # {}
    /\ \E j, k \in 1..Len(compiled[FirstMatch].var_names) :
          /\ ConverterFails(compiled[FirstMatch], j, Captured[j])
          /\ parsed.out.vars[compiled[FirstMatch].var_names[k]].t = "int"

-----------------------------------------------------------------------------
(* Claims about parse results (SpecParse) *)

\* C17: when no registered pattern matches the normalized text, or none is
\* registered, parse returns ok false, template and normalized_template None
\* and empty vars.
C17_NoMatchIsUnmatchedResult ==
    (parsed # None /\ Matching(parsed.text) = {}) =>
        /\ DOMAIN parsed.out = {"ok", "template", "normalized_template", "vars"}
        /\ parsed.out.ok = FALSE
        /\ parsed.out.template = None
        /\ parsed.out.normalized_template = None
        /\ DOMAIN parsed.out.vars = {}

\* A parse of a text that none of the registered patterns matches.
C17_Witness ==
    /\ parsed # None
    /\ Len(compiled) >= 2
    /\ Matching(parsed.text) = {}
    /\ ~parsed.out.ok

-----------------------------------------------------------------------------
(* Claims about parse as a read (SpecEngine) *)

\* What parse must leave alone.
ParseFrame == <<compiled, templates, handlers, before, after, history, metrics>>

\* C18 as stated: a parse of the text parsed last, on an unchanged pattern
\* list, has the same result, and parse leaves the pattern list, routes,
\* middleware, history and counters unchanged.
C18_SameTextSameResult ==
    [][parsed' # None =>
          /\ ParseFrame' = ParseFrame
          /\ (seen # None /\ seen.text = parsed'.text) => parsed'.out = seen.out]_vars

\* C18: a parse of the text parsed last, on an unchanged pattern list and an
\* unchanged type registry, has the same result, and parse leaves the pattern
\* list, routes, middleware, history, counters and registry unchanged.
C18_ParseIsPureRead ==
    [][parsed' # None =>
          /\ ParseFrame' = ParseFrame
          /\ types' = types
          /\ (seen # None /\ seen.text = parsed'.text /\ seen.types = types) =>
                parsed'.out = seen.out]_vars

\* The same text parsed twice in a row, with a match, on an engine that has a
\* route, middleware, history and counters.
C18_Witness ==
    /\ parsed # None /\ parsed.out.ok
    /\ seen # None /\ seen.n = 2 /\ seen.text = parsed.text
    /\ handlers # <<>> /\ before # <<>> /\ after # <<>>
    /\ history # <<>>
    /\ CounterGet(metrics, "handle.calls") > 0

-----------------------------------------------------------------------------
(* Claims about registering a type again (SpecTypes) *)

\* C19: registering a type leaves the regex of every pattern compiled so far
\* as it is, and a pattern compiled later has the regexes the registry holds
\* when it is compiled.
C19_CompiledRegexIsFixed ==
    [][/\ \A i \in 1..Len(compiled) :
             i <= Len(compiled') /\ compiled'[i].regex = compiled[i].regex
       /\ Len(compiled') > Len(compiled) =>
             compiled'[Len(compiled')].regex =
                 _compile_template(templates'[Len(templates')], types).regex]_vars

\* The regex the registry holds now for the type of capture j of a pattern.
RegisteredRx(cp, j) == types[LowerS(cp.var_types[j])].rx

\* A parse matched a pattern whose typed capture holds a string that the
\* regex now registered under the type's name does not match.
C19_Witness ==
    /\ parsed # None /\ Matching(parsed.text) # {}
    /\ \E j \in 1..Len(compiled[FirstMatch].var_types) :
          /\ compiled[FirstMatch].var_types[j] # <<>>
          /\ compiled[FirstMatch].regex[2 * j].rx # RegisteredRx(compiled[FirstMatch], j)
          /\ ~RxFullMatch(RegisteredRx(compiled[FirstMatch], j), Captured[j])

-----------------------------------------------------------------------------
(* Claims about meta (SpecMeta) *)

\* C20: the Event a handle() call records and the object it returns carry the
\* mapping the caller passed as meta, as it was passed; when the caller
\* passed none they carry an empty mapping.
C20_MetaPassedThrough ==
    ret # None =>
        /\ ret.meta # None =>
              /\ ret.value.meta = ret.meta.some
              /\ history[Len(history)].meta = ret.meta.some
        /\ ret.meta = None =>
              /\ DOMAIN ret.value.meta = {}
              /\ DOMAIN history[Len(history)].meta = {}

\* A call with a mapping of two keys, routed to a handler after a
\* before-middleware ran, as the second event of the history.
C20_Witness ==
    /\ ret # None
    /\ ret.meta # None
    /\ Cardinality(DOMAIN ret.meta.some) = 2
    /\ Len(history) = 2
    /\ StageCalls("handler") # {}
    /\ StageCalls("before") # {}

-----------------------------------------------------------------------------
(* Claims about the events of the history (SpecShared) *)

\* C21: every Event in the history is as it was when it was appended,
\* whatever handlers and the caller did since with the event mapping and with
\* the returned result.
C21_EventsNeverChange ==
    history = SubSeq(log, Len(log) - Min(Len(log), keep_history) + 1, Len(log))

-----------------------------------------------------------------------------
(* Claims about the token forms (SpecTokens) *)

\* The tokens of a compiled pattern, as _TOKEN_PAT finds them in its text,
\* and the positions of those without a name.
TokensOf(cp) == FindTokens(cp.text, 1)

AnonymousTokens(cp) ==
    {j \in 1..Len(TokensOf(cp)) : _parse_token(TokensOf(cp)[j].inner).name = <<>>}

\* C22: the k-th anonymous capture of a template is named var<k>, also when
\* named captures precede it.
C22_AnonymousNamesAreConsecutive ==
    \A i \in 1..Len(compiled) :
        \A j \in AnonymousTokens(compiled[i]) :
            /\ j <= Len(compiled[i].var_names)
            /\ compiled[i].var_names[j] =
                   VarName(Cardinality({a \in AnonymousTokens(compiled[i]) : a <= j}))

\* "[]" occurs in s.
RECURSIVE HasEmptyToken(_)
HasEmptyToken(s) ==
    /\ Len(s) >= 2
    /\ \/ (s[1] = "[" /\ s[2] = "]")
       \/ HasEmptyToken(Tail(s))

\* C23: a template with an empty token [] compiles to a pattern with a
\* capture slot named var<k> whose group is the default token regex.
C23_EmptyTokenIsAnonymousCapture ==
    \A i \in 1..Len(compiled) :
        HasEmptyToken(compiled[i].text) =>
            \E j \in 1..Len(compiled[i].var_names) :
                /\ compiled[i].var_names[j] = VarName(j)
                /\ compiled[i].var_types[j] = <<>>
                /\ compiled[i].regex[2 * j] = Cap(_DEFAULT_TOKEN_RX)

\* re.Pattern.groups: the capturing groups of the compiled regex, those the
\* tokens wrap and those written inside their sources.
GroupCount(regex) ==
    LET caps == {j \in 1..Len(regex) : regex[j].kind = "cap"}
        RECURSIVE Sum(_)
        Sum(S) == IF S = {} THEN 0
                  ELSE LET j == CHOOSE x \in S : TRUE
                       IN  1 + RxGroupCount(regex[j].rx) + Sum(S \ {j})
    IN  Sum(caps)

\* C24: every compiled pattern records as many captures as its regex has
\* capturing groups, one per token, for every token form.
C24_CapturesMatchGroups ==
    \A i \in 1..Len(compiled) :
        /\ Len(compiled[i].var_names) = GroupCount(compiled[i].regex)
        /\ Len(compiled[i].var_types) = GroupCount(compiled[i].regex)
        /\ Len(compiled[i].var_names) = Len(TokensOf(compiled[i]))

\* s occurs in t as a run of consecutive characters.
IsSubstring(s, t) ==
    \E p \in 0..(Len(t) - Len(s)) : SubSeq(t, p + 1, p + Len(s)) = s

\* C25: whether a pattern matches an input does not depend on the letter
\* case of the input, and every captured string is a substring of the
\* normalized input in the input's own letter case.
C25_CaseInsensitiveCasePreserving ==
    parsed # None =>
        LET tnorm == _normalize_separators(parsed.text) IN
        /\ \A i \in 1..Len(compiled) :
              RegexMatch(compiled[i], tnorm).matched
                  = RegexMatch(compiled[i], LowerS(tnorm)).matched
        /\ \A k \in DOMAIN parsed.out.vars :
              parsed.out.vars[k].t = "str" => IsSubstring(parsed.out.vars[k].s, tnorm)

\* parse("Go_X") matched "go_[x]" and captured "X"
C25_Witness ==
    /\ parsed # None
    /\ parsed.text = TxtGoCapX
    /\ parsed.out.template = Some(TplGoX)
    /\ parsed.out.vars = (<<"x">> :> StrVal(<<"X">>))

\* What the group of each token holds after the match: the groups of
\* m.groups() without those written inside the tokens' regex sources.
RECURSIVE TokenSegments(_, _, _, _)
TokenSegments(regex, groups, j, g) ==
    IF 2 * j > Len(regex) THEN <<>>
    ELSE <<groups[g]>>
             \o TokenSegments(regex, groups, j + 1, g + 1 + RxGroupCount(regex[2 * j].rx))

\* C26: when a template with a typed token matches, the input segment at the
\* token fully matches the type's regex, and a capture whose type has a
\* converter that accepts the segment holds the converted segment.
C26_TypedCaptureIsConverted ==
    (parsed # None /\ parsed.out.ok) =>
        LET cp   == compiled[FirstMatch]
            segs == TokenSegments(cp.regex, Captured, 1, 1)
        IN  \A j \in 1..Len(cp.var_names) :
                (cp.var_types[j] # <<>> /\ TypesGet(types, cp.var_types[j]) # None) =>
                    LET spec == TypesGet(types, cp.var_types[j]) IN
                    /\ RxFullMatch(spec.rx, segs[j])
                    /\ (spec.conv # "none" /\ ~Convert(spec.conv, segs[j]).raised) =>
                           parsed.out.vars[cp.var_names[j]] = Convert(spec.conv, segs[j]).val

-----------------------------------------------------------------------------
(* Claims about the MQTT bridge (SpecMqtt).  In a state where mqtt.last is  *)
(* a message and mqtt.call = ncalls > 0, the last operation was the         *)
(* _on_message of that message and ret, trace are of the handle it made.    *)

LastPublished == mqtt.published[Len(mqtt.published)]

\* The last message carried a non-empty string command.
CarriedCommand ==
    /\ mqtt.last # None
    /\ ~DecodeMessage(mqtt.last.some).failed
    /\ ~BlankCommand(DecodeMessage(mqtt.last.some).command)

\* The handler that ran in the last handle call returned an error result.
ReturnedErrorResult ==
    \E k \in 1..Len(trace) :
        /\ trace[k].stage = "handler"
        /\ ~trace[k].raised
        /\ "dict" \in DOMAIN handlers[trace[k].idx].handler

\* C27: for a message carrying a non-empty string command, the feedback
\* published is true exactly when handle reported ok and the routed predicate
\* and handler neither raised nor returned an error result.
C27_FeedbackIsOkAndNoHandlerError ==
    (CarriedCommand /\ ret # None /\ mqtt.call = ncalls) =>
        (LastPublished.payload.feedback
            <=> (~ret.raised /\ ret.value.ok /\ RouteFaults = {} /\ ~ReturnedErrorResult))

\* C28: every message delivered to _on_message has had exactly one message
\* published for it, whose payload is {"feedback": true|false} and nothing
\* else; for a command that was handled, publishing came after handle
\* returned, and a message without a usable command is answered without a
\* handle call.
C28_OneFeedbackPerMessage ==
    /\ Len(mqtt.published) = mqtt.delivered
    /\ \A k \in 1..Len(mqtt.published) :
          /\ DOMAIN mqtt.published[k].payload = {"feedback"}
          /\ mqtt.published[k].payload.feedback \in BOOLEAN
    /\ mqtt.last # None =>
          mqtt.steps = IF CarriedCommand THEN <<"handle", "publish">> ELSE <<"publish">>

\* Two messages were delivered: one answered without a handle call, then a
\* JSON command that was handled and answered on its meta's reply topic.
C28_Witness ==
    /\ mqtt.delivered = 2
    /\ Len(mqtt.published) = 2
    /\ ncalls = 1
    /\ mqtt.call = 1
    /\ mqtt.steps = <<"handle", "publish">>
    /\ LastPublished = Feedback("topic", TRUE)

-----------------------------------------------------------------------------
(* Claims about the remote bridge (SpecRemoteFair) *)

\* Every polling thread has left loop_forever.
PollingOver == \A l \in 1..Len(remote.loops) : remote.loops[l] = "done"

\* C29: once stop() has been called on a started bridge (at any moment after
\* start() returned, also before the thread has begun its loop) and it is not
\* started again, the polling loop eventually exits.
C29_StopEndsPolling ==
    (remote.stop_called /\ remote.loops # <<>>) ~> (PollingOver \/ ~remote.stop_called)

-----------------------------------------------------------------------------
(* Claims about periodic context (SpecContextFair) *)

\* The loops that keep publishing: running, their stop event not set.
KeepPublishing ==
    {l \in 1..Len(context.loops) :
        context.loops[l].pc # "done" /\ ~context.loops[l].stop_evt}

\* C30: after any sequence of start_periodic_context / stop_periodic_context
\* calls at most one loop keeps publishing, which is the one started last;
\* after stop_periodic_context none does; and a loop that was replaced or
\* stopped eventually ends.
C30_RestartReplacesTheLoop ==
    /\ [](/\ Cardinality(KeepPublishing) <= 1
          /\ KeepPublishing \subseteq {context.stop}
          /\ context.op = "stop" => KeepPublishing = {})
    /\ \A l \in ContextLoops :
          (l <= Len(context.loops) /\ l # context.stop)
              ~> (l <= Len(context.loops) /\ context.loops[l].pc = "done")

\* Periodic context was started twice: the first loop has ended after
\* publishing, the second has published its own message and keeps publishing.
C30_Witness ==
    /\ Len(context.loops) = 2
    /\ context.loops[1].pc = "done"
    /\ context.loops[1].message = "m1"
    /\ context.loops[2].message = "m2"
    /\ KeepPublishing = {2}
    /\ context.published = {"m1", "m2"}

-----------------------------------------------------------------------------
(* Claims about the order of the stages of one handle call (Spec) *)

\* The stage of handle() a callback belongs to: the before loop, the routing
\* loop, the after loop.
StageRank(stage) ==
    CASE stage = "before"             -> 1
      [] stage \in {"pred", "handler"} -> 2
      [] stage = "after"              -> 3

-----------------------------------------------------------------------------
(* Claims about a call no route takes (Spec) *)

\* The routes whose predicate returns true for the call's event.
TrueRoutes ==
    {i \in 1..Len(handlers) :
        LET p == CallPredicate(handlers[i].pred, LastEvt) IN ~p.raised /\ p.value}

\* The routes whose predicate raises for the call's event.
RaisingRoutes ==
    {i \in 1..Len(handlers) : CallPredicate(handlers[i].pred, LastEvt).raised}

\* C32 as stated: if no route's predicate returns true (no route registered
\* included), no handler is invoked and the result field is null, while ok
\* is whether a template matched.
C32_NoTrueRouteNullResult ==
    (ret # None /\ TrueRoutes = {}) =>
        /\ StageCalls("handler") = {}
        /\ ret.value.result = None
        /\ ret.value.ok = (LastEvt.template # None)

\* C32: if every route's predicate returns false, none raising (no route
\* registered included), no handler is invoked and the result field is null,
\* while ok is whether a template matched.
C32_AllFalseNullResult ==
    (ret # None /\ TrueRoutes = {} /\ RaisingRoutes = {}) =>
        /\ StageCalls("handler") = {}
        /\ ret.value.result = None
        /\ ret.value.ok = (LastEvt.template # None)
        /\ ret.value.ok = (Matching(LastEvt.command) # {})

\* A matched command on an engine with two routes, both predicates false.
C32_Witness ==
    /\ ret # None
    /\ Len(handlers) = 2
    /\ TrueRoutes = {}
    /\ RaisingRoutes = {}
    /\ Cardinality(StageCalls("pred")) = 2
    /\ ret.value.ok
    /\ ret.value.result = None

-----------------------------------------------------------------------------
(* Template routes: engines built with two patterns, whose callers register *)
(* handlers with on_template and call handle.  A handler returns the label  *)
(* of the template it was registered for.                                   *)

TplGoXSpaced == <<"g", "o", " ", "[", "x", "]">>

\* The pattern lists the engines are built with: go_7 matches both patterns
\* of the first two lists, and the first one in the list takes it.
RoutedPatterns ==
    {<<TplGoX, TplGoXInt>>, <<TplGoXInt, TplGoXSpaced>>, <<TplGoXSpaced, TplSetN>>}

RouteLabels == {"go_x", "go x", "go_int", "set"}

LabelTemplate(label) ==
    CASE label = "go_x"   -> TplGoX
      [] label = "go x"   -> TplGoXSpaced
      [] label = "go_int" -> TplGoXInt
      [] label = "set"    -> TplSetN

RoutedTexts == {TxtGo7, TxtSet42, TxtStop}

InitRouted == \E patterns \in RoutedPatterns : Construct(patterns, 1)

NextRouted ==
    \/ \E label \in RouteLabels : OnTemplate(LabelTemplate(label), RouteHandler(FALSE, label))
    \/ \E text \in RoutedTexts : ncalls < MaxCalls /\ Handle(text, None)

SpecRouted == InitRouted /\ [][NextRouted]_vars

\* The routes registered for a template whose normalized form is that of the
\* template the call's text matched.
EligibleRoutes ==
    {i \in 1..Len(handlers) :
        /\ ret.value.template # None
        /\ _normalize_separators(LabelTemplate(handlers[i].handler.out))
               = _normalize_separators(ret.value.template.some)}

\* C33: a handler registered with on_template(T, h) is eligible exactly for
\* the events whose matched template has the normalized form of T: it is
\* never invoked for a text no template matched or one matched by a template
\* of another normalized form, and the first eligible route is the one
\* invoked.
C33_TemplateRouteEligibility ==
    ret # None =>
        /\ \A k \in StageCalls("handler") : trace[k].idx \in EligibleRoutes
        /\ \A i \in 1..Len(handlers) :
               CallPredicate(handlers[i].pred, LastEvt).value <=> i \in EligibleRoutes
        /\ EligibleRoutes # {} =>
               LET first == CHOOSE i \in EligibleRoutes : \A j \in EligibleRoutes : i <= j IN
               /\ StageCalls("handler") = CallsOf("handler", first)
               /\ CallsOf("handler", first) # {}
               /\ ret.value.result = Returned(handlers[first].handler.out)
        /\ EligibleRoutes = {} => ret.value.result = None
        /\ ret.value.normalized_template # None =>
               ret.value.normalized_template.some
                   = _normalize_separators(ret.value.template.some)

\* go_7 was taken by go_[x:int], the first pattern of the list: the route
\* registered for "go [x]", a pattern of the engine that matches go_7 as
\* well, was passed over and the route for go_[x:int] ran.
C33_Witness ==
    /\ ret # None
    /\ templates = <<TplGoXInt, TplGoXSpaced>>
    /\ Len(handlers) = 2
    /\ handlers[1].handler.out = "go x"
    /\ handlers[2].handler.out = "go_int"
    /\ ret.value.result = Returned("go_int")

-----------------------------------------------------------------------------
(* Claims about MQTT messages without a usable command (SpecMqtt) *)

\* The message's command is missing, is not a string, or is empty once
\* stripped; the command of a payload that is not a JSON object is its text.
NoUsableCommand(msg) ==
    IF msg.json
    THEN \/ "s" \notin DOMAIN msg.command
         \/ Strip(msg.command.s) = <<>>
    ELSE Strip(msg.text) = <<>>

\* C34: a message whose command is missing, is not a string or is blank is
\* answered with feedback false and without a call of engine.handle: the
\* history and the counters are as they were before the message.
C34_UnusableCommandRejected ==
    [][(mqtt'.delivered = mqtt.delivered + 1 /\ NoUsableCommand(mqtt'.last.some)) =>
          /\ history' = history
          /\ metrics' = metrics
          /\ log' = log
          /\ ncalls' = ncalls
          /\ ret' = None
          /\ trace' = <<>>
          /\ Len(mqtt'.published) = Len(mqtt.published) + 1
          /\ SubSeq(mqtt'.published, 1, Len(mqtt.published)) = mqtt.published
          /\ mqtt'.published[Len(mqtt'.published)].payload = [feedback |-> FALSE]
      ]_vars

\* A command was handled and counted, then a JSON message whose command is
\* the number 7 was answered with false on its reply topic.
C34_Witness ==
    /\ mqtt.delivered = 2
    /\ mqtt.last = Some(JsonMessage(IntVal(7), None, Some("reply")))
    /\ Len(history) = 1
    /\ CounterGet(metrics, "handle.calls") = 1
    /\ LastPublished = Feedback("reply", FALSE)
    /\ ret = None

-----------------------------------------------------------------------------
(* The remote bridge polled by the application: process_once is called      *)
(* again and again, the remote end holding a record, none, or failing, and  *)
(* the response write going through or not.                                  *)

PolledRecords == Fetched \cup {Record(TxtGo7, "t2")}

InitPolled == Construct(<<TplGoX>>, 2)

NextPolled ==
    \E fetched \in PolledRecords, updated \in BOOLEAN :
        /\ Handles(fetched) => ncalls < MaxRemoteCalls
        /\ RemoteProcessOnce(fetched, updated)

SpecPolled == InitPolled /\ [][NextPolled]_vars

-----------------------------------------------------------------------------
(* Claims about process_once (SpecPolled).  A step that changes remote.poll *)
(* is a process_once call; remote'.poll tells what it fetched and returned. *)

\* The engine and the bridge's memory are as they were before the step.
PollChangedNothing ==
    /\ ret' = None
    /\ ncalls' = ncalls
    /\ history' = history
    /\ metrics' = metrics
    /\ log' = log
    /\ remote'.last_signature = remote.last_signature
    /\ remote'.written = remote.written

\* C35: the bridge does not execute a command twice: once process_once has
\* handled a record and written its response, every later process_once that
\* fetches a record with the same last_command and updated_at returns None
\* without calling engine.handle and without writing a response.
C35_NoCommandTwice ==
    [][(remote'.poll # remote.poll /\ remote'.poll.fetched \in remote.written) =>
          /\ remote'.poll.returned = None
          /\ PollChangedNothing
      ]_vars

\* C36: when the response write fails, process_once still returns what handle
\* returned and leaves the remembered signature as it was, so that the next
\* process_once fetching the same record handles the command again; a failed
\* fetch, no record and an empty command return None with no handle call and
\* no change of state.
C36_FailedWriteIsRetried ==
    [][remote'.poll # remote.poll =>
          LET p == remote'.poll
              f == remote'.poll.fetched
          IN  /\ (~IsRecord(f) \/ Strip(f.last_command) = <<>>) =>
                     (p.returned = None /\ PollChangedNothing)
              /\ (p.returned # None /\ ~p.updated) =>
                     /\ p.returned = Some(ret'.value)
                     /\ ret'.text = Strip(f.last_command)
                     /\ ncalls' = ncalls + 1
                     /\ remote'.last_signature = remote.last_signature
                     /\ remote'.written = remote.written
              /\ (/\ remote.poll # None
                  /\ remote.poll.returned # None
                  /\ ~remote.poll.updated
                  /\ f = remote.poll.fetched) =>
                     /\ p.returned # None
                     /\ ret' # None
                     /\ ret'.text = Strip(f.last_command)
      ]_vars

\* go_7 was fetched twice and handled twice, the response write failing both
\* times: nothing is remembered yet.
C36_Witness ==
    /\ remote.poll # None
    /\ remote.poll.fetched = Record(TxtGo7, "t1")
    /\ remote.poll.returned # None
    /\ ~remote.poll.updated
    /\ ncalls = 2
    /\ log[1].command = TxtGo7
    /\ log[2].command = TxtGo7
    /\ remote.last_signature = None
    /\ remote.written = {}

-----------------------------------------------------------------------------
(* Claims about the polling threads of one bridge (SpecRemoteFair) *)

\* The polling loops inside the body of `while not self._stop_event.is_set()`:
\* past the test, at process_once.
LoopsPolling == {l \in 1..Len(remote.loops) : remote.loops[l] = "poll"}

\* C37: across any sequence of start() and stop() calls on one bridge at most
\* one polling loop is running at any time.
C37_AtMostOnePollingLoop == Cardinality(LoopsPolling) <= 1

-----------------------------------------------------------------------------
(* Converters: an engine built with no patterns, whose callers register     *)
(* types, register them again under the same name, add templates that name  *)
(* them and parse.                                                          *)
(*   f    registered as digits, without converter                           *)
(*   F    registered again (the same name, lower-cased) as letters read by  *)
(*        int()                                                             *)
(*   int  registered again as digits, without converter                     *)
ConverterPool ==
    {[name |-> <<"f">>, rx |-> "\\d+", conv |-> "none"],
     [name |-> <<"F">>, rx |-> "[A-Za-z]+", conv |-> "int"],
     [name |-> <<"i", "n", "t">>, rx |-> "\\d+", conv |-> "none"]}

ConverterTemplates == {TplUnknownType, TplGoXInt}

ConverterTexts == {TxtGo7, TxtGoAb}

InitConverters == Construct(<<>>, KeepHistoryDefault)

NextConverters ==
    \/ \E ty \in ConverterPool : RegisterType(ty.name, ty.rx, ty.conv)
    \/ \E t \in ConverterTemplates : AddTemplate(t)
    \/ \E text \in ConverterTexts : Parse(text)

SpecConverters == InitConverters /\ [][NextConverters]_vars

-----------------------------------------------------------------------------
(* Claims about re-registered types (SpecConverters) *)

\* C38: the converter applied to a typed capture is the one registered under
\* the type's name when parse runs, not when the template was compiled: after
\* a type is registered again, a pattern compiled before still matches with
\* the regex it was compiled with, and its capture is converted with the
\* converter registered now, or left as the raw string when the registration
\* has no converter.
C38_ConverterLookedUpAtParse ==
    (parsed # None /\ Matching(parsed.text) # {}) =>
        LET cp == compiled[FirstMatch] IN
        \A j \in 1..Len(cp.var_names) :
            LET raw == Captured[j]
                now == types[LowerS(cp.var_types[j])]
            IN  /\ RxFullMatch(cp.regex[2 * j].rx, raw)
                /\ parsed.out.vars[cp.var_names[j]] =
                       IF now.conv = "none" \/ Convert(now.conv, raw).raised
                       THEN StrVal(raw)
                       ELSE Convert(now.conv, raw).val

\* go_[x:f] was compiled while f was digits without converter; f is now
\* letters read by int(), and go_7 still matches, with x the integer 7.
C38_Witness ==
    /\ parsed # None
    /\ parsed.text = TxtGo7
    /\ templates = <<TplUnknownType>>
    /\ compiled[1].regex[2].rx = "\\d+"
    /\ types[<<"f">>] = [rx |-> "[A-Za-z]+", conv |-> "int"]
    /\ parsed.out.ok
    /\ parsed.out.vars[<<"x">>] = IntVal(7)

====
